---- MODULE Spec2Model ----
(***************************************************************************)
(* Model of the orientation fusion engine of AR Cities (sensors.ts,        *)
(* startOrientation), the angle helpers of geo.ts, and the label renderer  *)
(* (renderer.ts, render) with the projection helpers it calls.             *)
(*                                                                         *)
(* Numbers.  Angles are fixed-point integers in tenths of a degree         *)
(* (360 degrees = 3600), times are integer milliseconds, the smoothing     *)
(* setting is in hundredths, and products with a fractional gain are       *)
(* truncated toward zero.  JavaScript is single threaded, so every event   *)
(* handler, timer callback, animation-frame callback and API call is one   *)
(* atomic action; what the subscriber callbacks do while a sample is being *)
(* delivered (return, unsubscribe, call stop(), throw) is an input of the  *)
(* action that emits.                                                      *)
(***************************************************************************)
EXTENDS Integers, Sequences, FiniteSets, TLC

\* ------------------------------------------------------------------ bounds
MaxAdvance == 3            \* number of clock steps explored after start
MaxSteps == 6              \* number of operations explored after start

\* --------------------------------------------------------------- constants
GraceMs == 2000            \* setTimeout(..., 2000)
Full == 3600               \* 360 degrees, in tenths of a degree
Half == 1800               \* 180 degrees
PitchLimit == 890          \* 89 degrees (virtual pitch clamp)
AccelGainPct == 2          \* accelGain = 0.02
YawGainPct == 1            \* yawCorrectionGain = 0.01
SensitivityTenths == 1     \* 0.1 degree per pixel = 1 tenth per pixel
SmoothMaxH == 30           \* setSmoothing upper clamp 0.3, in hundredths

TimeStep == GraceMs \div 2 \* granularity of the modelled clock (ms)
T0 == TimeStep             \* performance.now() when startOrientation runs

\* An optional value is <<>> (null or undefined) or <<v>>.
NULL == <<>>
Some(v) == <<v>>
Val(o) == o[1]
NoSensor == "null"
NoQuat == "noquat"

Listeners == {"l1", "l2"}
Reactions == {"ret", "unsub", "stop", "throw"}

SrcGeneric == "generic-sensor"
SrcFusion == "deviceorientation+motion"
SrcVirtual == "virtual"

\* What the platform offers when startOrientation runs.
SensorEnvs == {"none", "ctorThrows", "startThrows", "ok"}

\* ------------------------------------------------------------ pure helpers
Range(s) == {s[i] : i \in 1..Len(s)}

Remove(s, x) == SelectSeq(s, LAMBDA y : y # x)

\* JavaScript %: the result has the sign of the dividend.
JsRem(a, b) == IF a >= 0 THEN a % b ELSE 0 - ((0 - a) % b)

\* Division truncating toward zero (fixed-point product with a gain).
TruncDiv(a, b) == IF a >= 0 THEN a \div b ELSE 0 - ((0 - a) \div b)

Max(a, b) == IF a >= b THEN a ELSE b
Min(a, b) == IF a <= b THEN a ELSE b

\* Mutant: the branch that lifts a negative remainder is missing.
wrap360_keepsNegative(deg) == JsRem(deg, Full)

wrap360(deg) ==
  LET d == JsRem(deg, Full) IN IF d < 0 THEN d + Full ELSE d

wrap180(deg) ==
  JsRem(JsRem(deg + Half, Full) + Full, Full) - Half

\* 1 - exp(-s) for s in hundredths, in millionths (Taylor series to the
\* third order, exact to 3e-4 on [0, 0.3]).
ExpFactor(s) ==
  s * 10000 - TruncDiv(s * s * 100, 2) + TruncDiv(s * s * s, 6)

MulFactor(x, s) == TruncDiv(x * ExpFactor(s), 1000000)

\* Mutant: the raw difference is blended, not the minimal angular delta.
smoothAngle_rawDelta(prev, next, factor) ==
  wrap360(prev + MulFactor(next - prev, factor))

smoothAngle(prev, next, factor) ==
  LET delta == wrap180(next - prev)
  IN wrap360(prev + MulFactor(delta, factor))

\* Mutant: the smoothing setting is the blend weight itself.
smoothLinear_rawFactor(prev, next, factor) ==
  prev + TruncDiv((next - prev) * factor, 100)

smoothLinear(prev, next, factor) ==
  prev + MulFactor(next - prev, factor)

\* atan2 in tenths of a degree for arguments in {-1, 0, 1}.
Atan2Deg(y, x) ==
  CASE y = 0 /\ x >= 0 -> 0
    [] y = 0 /\ x < 0 -> 1800
    [] y > 0 /\ x = 0 -> 900
    [] y < 0 /\ x = 0 -> -900
    [] y > 0 /\ x > 0 -> 450
    [] y > 0 /\ x < 0 -> 1350
    [] y < 0 /\ x > 0 -> -450
    [] y < 0 /\ x < 0 -> -1350

\* hypot for vectors with at most one non-zero component in {-1, 0, 1}.
Hypot(a, b) == IF a # 0 \/ b # 0 THEN 1 ELSE 0

\* Quaternions offered by the generic sensor, by name, and their ZYX Euler
\* angles as quatToEuler computes them:
\*   "id"   = (0, 0, 0, 1)              "z90"  = (0, 0, sin 45, cos 45)
\*   "zm90" = (0, 0, -sin 45, cos 45)   "x90"  = (sin 45, 0, 0, cos 45)
Quats == {NoQuat, "zm90", "x90"}
quatToEuler(q) ==
  CASE q = "id" -> [yaw |-> 0, pitch |-> 0, roll |-> 0]
    [] q = "z90" -> [yaw |-> 900, pitch |-> 0, roll |-> 0]
    [] q = "zm90" -> [yaw |-> -900, pitch |-> 0, roll |-> 0]
    [] q = "x90" -> [yaw |-> 0, pitch |-> 0, roll |-> 900]

\* ------------------------------------------------------------ event inputs
\* DeviceOrientationEvent: webkitCompassHeading and alpha, each a number or
\* absent (a platform without a compass delivers null values).
DOEvents ==
  { [wch |-> NULL, alpha |-> NULL],
    [wch |-> NULL, alpha |-> Some(900)],
    [wch |-> Some(2700), alpha |-> Some(900)] }

\* DeviceMotionEvent: rotationRate (tenths of a degree per second) and
\* accelerationIncludingGravity (unit gravity vector), each possibly absent.
DMEvents ==
  { [rr |-> NULL, ag |-> NULL],
    [rr |-> Some([alpha |-> 900, beta |-> 0, gamma |-> 0]),
     ag |-> Some([x |-> -1, y |-> 0, z |-> 0])] }

\* clientX, clientY of pointer events
PointerPoints == {<<0, 0>>, <<100, 50>>}

SmoothingInputs == {15}
OffsetInputs == {0}

\* ------------------------------------------------------------------- state
VARIABLES
  sensorEnv,        \* what window offers: which sensor constructor, and how it behaves
  now,              \* performance.now(), ms
  smoothing,        \* let smoothing (hundredths)
  headingOffsetDeg, \* let headingOffsetDeg
  listeners,        \* the Set of subscriber callbacks, in insertion order
  src,              \* let src
  rafPending,       \* the frame requested under rafId is still waiting to run
  yaw, pitch, roll, \* filter state
  lastGyroTs,       \* ms, 0 = no motion event yet
  lastEmit,         \* the sample emitted last
  headingMeas,      \* NULL or the last heading measurement
  genericSensor,    \* NoSensor, or "sensor" once constructed
  sensorActive,     \* the generic sensor was started and not stopped
  fusionReg,        \* onDO and onDM are registered on window
  timerArmed,       \* the grace timeout is pending
  pointerReg,       \* onDown, onUp and onMove are registered on window
  dragging, lastX, lastY,   \* closure state of startVirtual
  stopFns,          \* the array of teardown closures, by name
  unsubFns,         \* listeners whose unsubscribe function the host holds
  \* ---- observation of the run (not program state)
  steps,            \* operations run since start
  ev,               \* the operation that ran last
  calls,            \* the callback invocations of the last operation, in order
  stopped,          \* stop() has returned at least once
  threw,            \* the last operation ended with an uncaught exception
  dmSeen,           \* a devicemotion event was handled since start
  headSeen,         \* a heading measurement was stored since start
  timerFired,       \* the grace timeout ran
  unsubbed          \* listeners unsubscribed and not subscribed again since

\* ---- the angle helpers of geo.ts called on their own
VARIABLES
  wrapArg,          \* the argument of a wrap180 call
  wrapRes           \* NULL before the call, then its result

geoVars == <<wrapArg, wrapRes>>

\* ---- a projection or layout helper called on its own
VARIABLES
  callArg,          \* the helper's name and the arguments of the call
  callRes           \* NULL before the call, then Some(its result)

callVars == <<callArg, callRes>>

\* ---- observation of the host's calls
VARIABLES
  setArg,           \* NULL, or the argument of the last setSmoothing call
  page              \* main.ts: the window.__arc_* fields, haveLocation (with
                    \* the cities loaded), whether raf is requested, and
                    \* what the frames did (observation)

hostVars == <<setArg, page>>

\* ---- the heading numbers in double precision (see "doubles at the seam")
VARIABLES
  seamHead,         \* lastEmit.headingDeg
  seamOff           \* headingOffsetDeg

seamVars == <<seamHead, seamOff>>

\* ---- the renderer (renderer.ts) and the caller's frame clock
VARIABLES
  labelAlpha,       \* the Map key -> alpha (thousandths), the fade state
  lastNowRef,       \* lastNowRef.v, ms; 0 before the first frame
  lastDt,           \* the dt the last render call computed, ms
  input,            \* the RendererInput of the last render call
  placed,           \* the on-screen pool of the last frame
  edgeLeftPlaced,   \* the left-edge lane of the last frame
  edgeRightPlaced,  \* the right-edge lane of the last frame
  visibleKeys,      \* the visible-target set of the last frame
  drawn,            \* the cards and chevrons the last frame drew, in order,
                    \* each with the globalAlpha it was drawn under
  frames            \* render calls so far

renderVars == <<labelAlpha, lastNowRef, lastDt, input, placed, edgeLeftPlaced,
                edgeRightPlaced, visibleKeys, drawn, frames>>

engineVars == <<smoothing, headingOffsetDeg, listeners, src, rafPending, yaw,
                pitch, roll, lastGyroTs, lastEmit, headingMeas, genericSensor,
                sensorActive, fusionReg, timerArmed, pointerReg, dragging,
                lastX, lastY, stopFns, unsubFns>>
obsVars == <<ev, calls, stopped, threw, dmSeen, headSeen, timerFired,
             unsubbed>>
auxVars == <<geoVars, callVars, hostVars, seamVars, renderVars>>
vars == <<sensorEnv, now, engineVars, obsVars, steps, auxVars>>

\* ----------------------------------------------------------- construction
\* startGenericSensor(): the try block up to the point where it returns or
\* throws.  The result says what it returned and what it left assigned.
startGenericSensor(env) ==
  CASE env = "none" ->
         [started |-> FALSE, genericSensor |-> NoSensor, src |-> SrcFusion,
          active |-> FALSE, escaped |-> FALSE]
    [] env = "ctorThrows" ->
         [started |-> FALSE, genericSensor |-> NoSensor, src |-> SrcFusion,
          active |-> FALSE, escaped |-> FALSE]
    [] env = "startThrows" ->
         [started |-> FALSE, genericSensor |-> "sensor", src |-> SrcGeneric,
          active |-> FALSE, escaped |-> FALSE]
    [] env = "ok" ->
         [started |-> TRUE, genericSensor |-> "sensor", src |-> SrcGeneric,
          active |-> TRUE, escaped |-> FALSE]

\* Mutant: the assignment src = 'deviceorientation+motion' is missing.
startDeviceFusion_keepsSrc(g) == [src |-> g.src, fusionReg |-> TRUE]

\* startDeviceFusion(): sets src and registers onDO and onDM.
startDeviceFusion(g) == [src |-> SrcFusion, fusionReg |-> TRUE]

\* Mutant: the grace timer is armed even when the generic sensor started.
startOrientation_alwaysTimer(env) ==
  LET g == startGenericSensor(env)
      f == startDeviceFusion(g)
  IN IF g.started
       THEN [returned |-> TRUE, src |-> g.src, genericSensor |-> g.genericSensor,
             sensorActive |-> g.active, fusionReg |-> FALSE,
             timerArmed |-> TRUE, stopFns |-> <<"timer">>, rafPending |-> TRUE]
     ELSE [returned |-> TRUE, src |-> f.src, genericSensor |-> g.genericSensor,
           sensorActive |-> g.active, fusionReg |-> f.fusionReg,
           timerArmed |-> TRUE, stopFns |-> <<"fusion", "timer">>,
           rafPending |-> TRUE]

\* The body of startOrientation after the closures are defined: pick the
\* source, arm the grace timer, request the first animation frame.
startOrientation(env) ==
  LET g == startGenericSensor(env)
      f == startDeviceFusion(g)
  IN IF g.escaped
       THEN [returned |-> FALSE, src |-> g.src, genericSensor |-> g.genericSensor,
             sensorActive |-> g.active, fusionReg |-> FALSE,
             timerArmed |-> FALSE, stopFns |-> <<>>, rafPending |-> FALSE]
     ELSE IF g.started
       THEN [returned |-> TRUE, src |-> g.src, genericSensor |-> g.genericSensor,
             sensorActive |-> g.active, fusionReg |-> FALSE,
             timerArmed |-> FALSE, stopFns |-> <<>>, rafPending |-> TRUE]
     ELSE [returned |-> TRUE, src |-> f.src, genericSensor |-> g.genericSensor,
           sensorActive |-> g.active, fusionReg |-> f.fusionReg,
           timerArmed |-> TRUE, stopFns |-> <<"fusion", "timer">>,
           rafPending |-> TRUE]

\* The state after startOrientation(options) has run.
EngineInit ==
  /\ sensorEnv \in SensorEnvs
  /\ now = T0
  /\ smoothing \in SmoothingInputs
  /\ headingOffsetDeg \in OffsetInputs
  /\ listeners = <<>>
  /\ LET s == startOrientation(sensorEnv)
     IN /\ src = s.src
        /\ rafPending = s.rafPending
        /\ genericSensor = s.genericSensor
        /\ sensorActive = s.sensorActive
        /\ fusionReg = s.fusionReg
        /\ timerArmed = s.timerArmed
        /\ stopFns = s.stopFns
        /\ threw = ~s.returned
  /\ yaw = 0 /\ pitch = 0 /\ roll = 0
  /\ lastGyroTs = 0
  /\ lastEmit = [headingDeg |-> 0, pitchDeg |-> 0, rollDeg |-> 0,
                 source |-> "deviceorientation", timestamp |-> T0]
  /\ headingMeas = NULL
  /\ pointerReg = FALSE
  /\ dragging = FALSE /\ lastX = 0 /\ lastY = 0
  /\ unsubFns = {}
  /\ ev = "start"
  /\ steps = 0
  /\ calls = <<>>
  /\ stopped = FALSE
  /\ dmSeen = FALSE /\ headSeen = FALSE /\ timerFired = FALSE
  /\ unsubbed = {}

\* No helper has been called on its own.
GeoIdle == wrapArg = 0 /\ wrapRes = NULL

CallIdle == callArg = [fn |-> "none"] /\ callRes = NULL

\* main.ts has run: nothing stored on window, no location, raf requested.
PageLoaded ==
  [arcHeading |-> NULL, arcPitch |-> NULL, arcBound |-> FALSE,
   haveLocation |-> FALSE, rafQueued |-> TRUE,
   emitted |-> FALSE, rendered |-> 0, passed |-> NULL, failed |-> FALSE]

HostIdle == setArg = NULL /\ page = PageLoaded

\* lastEmit.headingDeg = 0 and options.headingOffsetDeg = 0 as doubles.
SeamIdle == seamHead = [k |-> 0, n |-> 0] /\ seamOff = [k |-> 0, n |-> 0]

\* The renderer module is loaded and render has not been called.
RenderIdle ==
  /\ labelAlpha = <<>>
  /\ lastNowRef = 0
  /\ lastDt = 0
  /\ input = [width |-> 0, height |-> 0, hfovDeg |-> 0, pitchDeg |-> 0,
              headingDeg |-> 0, maxDistanceKm |-> 0,
              showOffscreenIndicators |-> FALSE]
  /\ placed = <<>> /\ edgeLeftPlaced = <<>> /\ edgeRightPlaced = <<>>
  /\ drawn = <<>>
  /\ visibleKeys = {}
  /\ frames = 0

AuxIdle == GeoIdle /\ CallIdle /\ HostIdle /\ SeamIdle /\ RenderIdle

Init == EngineInit /\ AuxIdle

\* The sample emit(ts) builds from the filter state and the previous sample.
Sample(ts, y, p, r) ==
  LET targetHeading == wrap360(y + headingOffsetDeg)
  IN [headingDeg |-> smoothAngle(lastEmit.headingDeg, targetHeading, smoothing),
      pitchDeg |-> smoothLinear(lastEmit.pitchDeg, p, smoothing),
      rollDeg |-> smoothLinear(lastEmit.rollDeg, r, smoothing),
      source |-> src,
      timestamp |-> ts]

\* listeners.forEach((fn) => fn(out)): the Set is visited in insertion order,
\* an entry deleted before its turn is skipped, and an exception thrown by a
\* callback ends the iteration.  react[fn] is what callback fn does when it
\* is invoked.  st.ls is the Set while the iteration runs.
RECURSIVE forEach(_, _, _)
forEach(order, react, st) ==
  IF order = <<>> THEN st
  ELSE
    LET fn == Head(order)
        st1 == [st EXCEPT !.called = Append(@, [fn |-> fn, afterStop |-> st.stopCalled])]
    IN IF fn \notin Range(st.ls) THEN forEach(Tail(order), react, st)
       ELSE CASE react[fn] = "ret" -> forEach(Tail(order), react, st1)
              [] react[fn] = "unsub" ->
                   forEach(Tail(order), react,
                           [st1 EXCEPT !.ls = Remove(@, fn),
                                       !.unsub = @ \cup {fn}])
              [] react[fn] = "stop" ->
                   forEach(Tail(order), react,
                           [st1 EXCEPT !.ls = <<>>, !.stopCalled = TRUE])
              [] react[fn] = "throw" -> [st1 EXCEPT !.threw = TRUE]

Delivery(react) ==
  forEach(listeners, react,
          [ls |-> listeners, called |-> <<>>, unsub |-> {},
           stopCalled |-> FALSE, threw |-> FALSE])

\* Mutant: clearTimeout is never pushed onto stopFns.
StopTeardown_keepsTimer ==
  /\ fusionReg' = IF "fusion" \in Range(stopFns) THEN FALSE ELSE fusionReg
  /\ timerArmed' = timerArmed
  /\ pointerReg' = IF "virtual" \in Range(stopFns) THEN FALSE ELSE pointerReg
  /\ sensorActive' = IF genericSensor # NoSensor THEN FALSE ELSE sensorActive
  /\ stopped' = TRUE

\* What stop() does besides cancelling the frame and clearing the
\* subscribers: run every teardown closure, stop the generic sensor.
StopTeardown ==
  /\ fusionReg' = IF "fusion" \in Range(stopFns) THEN FALSE ELSE fusionReg
  /\ timerArmed' = IF "timer" \in Range(stopFns) THEN FALSE ELSE timerArmed
  /\ pointerReg' = IF "virtual" \in Range(stopFns) THEN FALSE ELSE pointerReg
  /\ sensorActive' = IF genericSensor # NoSensor THEN FALSE ELSE sensorActive
  /\ stopped' = TRUE

\* emit(ts) with the filter state (y, p, r) the handler has just assigned,
\* including whatever the callbacks do to the engine meanwhile.  inTick tells
\* whether the caller is tick(), whose own frame is no longer cancellable and
\* which requests the next frame when emit returns normally.
emit(ts, y, p, r, react, inTick) ==
  LET out == Sample(ts, y, p, r)
      d == Delivery(react)
  IN /\ lastEmit' = out
     /\ calls' = [i \in 1..Len(d.called) |->
                   [fn |-> d.called[i].fn, sample |-> out,
                    afterStop |-> d.called[i].afterStop]]
     /\ listeners' = d.ls
     /\ unsubbed' = unsubbed \cup d.unsub
     /\ threw' = d.threw
     /\ IF d.stopCalled
          THEN StopTeardown
          ELSE UNCHANGED <<fusionReg, timerArmed, pointerReg, sensorActive, stopped>>
     /\ rafPending' = IF inTick THEN ~d.threw
                      ELSE IF d.stopCalled THEN FALSE ELSE rafPending

\* ----------------------------------------------------------------- actions
\* Time passes between two tasks of the event loop.
advance ==
  /\ now < T0 + MaxAdvance * TimeStep
  /\ now' = now + TimeStep
  /\ ev' = "advance"
  /\ calls' = <<>>
  /\ threw' = FALSE
  /\ UNCHANGED <<sensorEnv, engineVars, stopped, dmSeen, headSeen,
                 timerFired, unsubbed>>

\* Mutant: tick emits the frame's start time instead of performance.now().
tickStamp_frameStart == now - TimeStep

\* The timestamp tick() passes to emit: performance.now().
tickStamp == now

\* tick(): the animation-frame callback.
tick(react) ==
  /\ rafPending
  /\ emit(tickStamp, yaw, pitch, roll, react, TRUE)
  /\ ev' = "tick"
  /\ UNCHANGED <<sensorEnv, now, smoothing, headingOffsetDeg, src, yaw, pitch,
                 roll, lastGyroTs, headingMeas, genericSensor, dragging, lastX,
                 lastY, stopFns, unsubFns, dmSeen, headSeen, timerFired>>

\* s.onreading of the generic sensor.
onreading(q, react) ==
  /\ sensorActive
  /\ ev' = IF q = NoQuat THEN "readingNoQuat" ELSE "reading"
  /\ IF q = NoQuat
       THEN /\ calls' = <<>>
            /\ threw' = FALSE
            /\ UNCHANGED <<engineVars, stopped, unsubbed>>
       ELSE LET e == quatToEuler(q)
            IN /\ yaw' = wrap360(e.yaw)
               /\ pitch' = e.pitch
               /\ roll' = e.roll
               /\ emit(now, wrap360(e.yaw), e.pitch, e.roll, react, FALSE)
               /\ UNCHANGED <<smoothing, headingOffsetDeg, src, lastGyroTs,
                              headingMeas, genericSensor, dragging, lastX,
                              lastY, stopFns, unsubFns>>
  /\ UNCHANGED <<sensorEnv, now, dmSeen, headSeen, timerFired>>

\* onDO: store the heading measurement of a deviceorientation event.
onDO(e) ==
  /\ fusionReg
  /\ headingMeas' = IF e.wch # NULL THEN Some(wrap360(Val(e.wch)))
                    ELSE IF e.alpha # NULL THEN Some(wrap360(Val(e.alpha)))
                    ELSE headingMeas
  /\ headSeen' = (headSeen \/ e.wch # NULL \/ e.alpha # NULL)
  /\ ev' = "DO"
  /\ calls' = <<>>
  /\ threw' = FALSE
  /\ UNCHANGED <<sensorEnv, now, smoothing, headingOffsetDeg, listeners, src,
                 rafPending, yaw, pitch, roll, lastGyroTs, lastEmit,
                 genericSensor, sensorActive, fusionReg, timerArmed, pointerReg,
                 dragging, lastX, lastY, stopFns, unsubFns, stopped,
                 dmSeen, timerFired, unsubbed>>

\* Mutant: the heading measurement never corrects yaw.
Fused_noCorrection(e) ==
  LET dtMs == IF lastGyroTs # 0 THEN now - lastGyroTs ELSE 0
      rr == Val(e.rr)
      ag == Val(e.ag)
      y1 == IF e.rr # NULL
              THEN wrap360(yaw + TruncDiv(rr.alpha * dtMs, 1000)) ELSE yaw
      p1 == IF e.rr # NULL THEN pitch + TruncDiv(rr.beta * dtMs, 1000) ELSE pitch
      r1 == IF e.rr # NULL THEN roll + TruncDiv(rr.gamma * dtMs, 1000) ELSE roll
      pitchAcc == IF e.ag # NULL
                    THEN Atan2Deg(0 - ag.x, Hypot(ag.y, ag.z)) ELSE 0
      rollAcc == IF e.ag # NULL THEN Atan2Deg(ag.y, ag.z) ELSE 0
      p2 == IF e.ag # NULL
              THEN TruncDiv(p1 * (100 - AccelGainPct) + pitchAcc * AccelGainPct, 100)
              ELSE p1
      r2 == IF e.ag # NULL
              THEN TruncDiv(r1 * (100 - AccelGainPct) + rollAcc * AccelGainPct, 100)
              ELSE r1
  IN [yaw |-> y1, pitch |-> p2, roll |-> r2]

\* The filter state onDM computes from a devicemotion event.
Fused(e) ==
  LET dtMs == IF lastGyroTs # 0 THEN now - lastGyroTs ELSE 0
      rr == Val(e.rr)
      ag == Val(e.ag)
      y1 == IF e.rr # NULL
              THEN wrap360(yaw + TruncDiv(rr.alpha * dtMs, 1000)) ELSE yaw
      p1 == IF e.rr # NULL THEN pitch + TruncDiv(rr.beta * dtMs, 1000) ELSE pitch
      r1 == IF e.rr # NULL THEN roll + TruncDiv(rr.gamma * dtMs, 1000) ELSE roll
      pitchAcc == IF e.ag # NULL
                    THEN Atan2Deg(0 - ag.x, Hypot(ag.y, ag.z)) ELSE 0
      rollAcc == IF e.ag # NULL THEN Atan2Deg(ag.y, ag.z) ELSE 0
      p2 == IF e.ag # NULL
              THEN TruncDiv(p1 * (100 - AccelGainPct) + pitchAcc * AccelGainPct, 100)
              ELSE p1
      r2 == IF e.ag # NULL
              THEN TruncDiv(r1 * (100 - AccelGainPct) + rollAcc * AccelGainPct, 100)
              ELSE r1
      y2 == IF headingMeas # NULL
              THEN wrap360(y1 + TruncDiv(wrap180(Val(headingMeas) - y1) * YawGainPct, 100))
              ELSE y1
  IN [yaw |-> y2, pitch |-> p2, roll |-> r2]

\* onDM: integrate, correct, emit.
onDM(e, react) ==
  /\ fusionReg
  /\ LET f == Fused(e)
     IN /\ lastGyroTs' = now
        /\ yaw' = f.yaw
        /\ pitch' = f.pitch
        /\ roll' = f.roll
        /\ emit(now, f.yaw, f.pitch, f.roll, react, FALSE)
  /\ dmSeen' = TRUE
  /\ ev' = "DM"
  /\ UNCHANGED <<sensorEnv, now, smoothing, headingOffsetDeg, src, headingMeas,
                 genericSensor, dragging, lastX, lastY, stopFns, unsubFns,
                 headSeen, timerFired>>

\* Mutant: the test forgets the heading measurement.
noEventsArrived_gyroOnly == lastGyroTs = 0

\* The test of the setTimeout callback: nothing has arrived.
noEventsArrived == lastGyroTs = 0 /\ headingMeas = NULL

\* The setTimeout callback armed by startOrientation; startVirtual() inside.
timeout ==
  /\ timerArmed
  /\ now >= T0 + GraceMs
  /\ timerArmed' = FALSE
  /\ timerFired' = TRUE
  /\ IF noEventsArrived
       THEN /\ src' = SrcVirtual
            /\ dragging' = FALSE /\ lastX' = 0 /\ lastY' = 0
            /\ pointerReg' = TRUE
            /\ stopFns' = Append(stopFns, "virtual")
       ELSE UNCHANGED <<src, dragging, lastX, lastY, pointerReg, stopFns>>
  /\ ev' = "timeout"
  /\ calls' = <<>>
  /\ threw' = FALSE
  /\ UNCHANGED <<sensorEnv, now, smoothing, headingOffsetDeg, listeners,
                 rafPending, yaw, pitch, roll, lastGyroTs, lastEmit, headingMeas,
                 genericSensor, sensorActive, fusionReg, unsubFns, stopped, dmSeen, headSeen, unsubbed>>

\* onDown / onUp of startVirtual.
onDown(x, y) ==
  /\ pointerReg
  /\ dragging' = TRUE /\ lastX' = x /\ lastY' = y
  /\ ev' = "down"
  /\ calls' = <<>>
  /\ threw' = FALSE
  /\ UNCHANGED <<sensorEnv, now, smoothing, headingOffsetDeg, listeners, src,
                 rafPending, yaw, pitch, roll, lastGyroTs, lastEmit, headingMeas,
                 genericSensor, sensorActive, fusionReg, timerArmed, pointerReg,
                 stopFns, unsubFns, stopped, dmSeen, headSeen,
                 timerFired, unsubbed>>

onUp ==
  /\ pointerReg
  /\ dragging' = FALSE
  /\ ev' = "up"
  /\ calls' = <<>>
  /\ threw' = FALSE
  /\ UNCHANGED <<sensorEnv, now, smoothing, headingOffsetDeg, listeners, src,
                 rafPending, yaw, pitch, roll, lastGyroTs, lastEmit, headingMeas,
                 genericSensor, sensorActive, fusionReg, timerArmed, pointerReg,
                 lastX, lastY, stopFns, unsubFns, stopped, dmSeen,
                 headSeen, timerFired, unsubbed>>

\* onMove of startVirtual: a drag turns the virtual heading and pitch.
onMove(x, y, react) ==
  /\ pointerReg
  /\ ev' = IF dragging THEN "move" ELSE "moveIdle"
  /\ IF ~dragging
       THEN /\ calls' = <<>>
            /\ threw' = FALSE
            /\ UNCHANGED <<engineVars, stopped, unsubbed>>
       ELSE LET dx == x - lastX
                dy == y - lastY
                y1 == wrap360(yaw + dx * SensitivityTenths)
                p1 == Max(0 - PitchLimit, Min(PitchLimit, pitch - dy * SensitivityTenths))
            IN /\ lastX' = x /\ lastY' = y
               /\ yaw' = y1
               /\ pitch' = p1
               /\ emit(now, y1, p1, roll, react, FALSE)
               /\ UNCHANGED <<smoothing, headingOffsetDeg, src, roll, lastGyroTs,
                              headingMeas, genericSensor, dragging, stopFns,
                              unsubFns>>
  /\ UNCHANGED <<sensorEnv, now, dmSeen, headSeen, timerFired>>

\* ---- the handle returned by startOrientation
subscribe(l) ==
  /\ listeners' = IF l \in Range(listeners) THEN listeners ELSE Append(listeners, l)
  /\ unsubFns' = unsubFns \cup {l}
  /\ unsubbed' = unsubbed \ {l}
  /\ ev' = "subscribe"
  /\ calls' = <<>>
  /\ threw' = FALSE
  /\ UNCHANGED <<sensorEnv, now, smoothing, headingOffsetDeg, src, rafPending,
                 yaw, pitch, roll, lastGyroTs, lastEmit, headingMeas,
                 genericSensor, sensorActive, fusionReg, timerArmed, pointerReg,
                 dragging, lastX, lastY, stopFns, stopped, dmSeen,
                 headSeen, timerFired>>

\* The function subscribe(l) returned, called by the host between events.
unsubscribe(l) ==
  /\ l \in unsubFns
  /\ listeners' = Remove(listeners, l)
  /\ unsubbed' = unsubbed \cup {l}
  /\ ev' = "unsubscribe"
  /\ calls' = <<>>
  /\ threw' = FALSE
  /\ UNCHANGED <<sensorEnv, now, smoothing, headingOffsetDeg, src, rafPending,
                 yaw, pitch, roll, lastGyroTs, lastEmit, headingMeas,
                 genericSensor, sensorActive, fusionReg, timerArmed, pointerReg,
                 dragging, lastX, lastY, stopFns, unsubFns, stopped,
                 dmSeen, headSeen, timerFired>>

\* Mutant: the argument is stored as it comes.
setSmoothing_noClamp(v) ==
  /\ smoothing' = v
  /\ ev' = "setSmoothing"
  /\ calls' = <<>>
  /\ threw' = FALSE
  /\ UNCHANGED <<sensorEnv, now, headingOffsetDeg, listeners, src, rafPending,
                 yaw, pitch, roll, lastGyroTs, lastEmit, headingMeas,
                 genericSensor, sensorActive, fusionReg, timerArmed, pointerReg,
                 dragging, lastX, lastY, stopFns, unsubFns, stopped,
                 dmSeen, headSeen, timerFired, unsubbed>>

setSmoothing(v) ==
  /\ smoothing' = Max(0, Min(SmoothMaxH, v))
  /\ ev' = "setSmoothing"
  /\ calls' = <<>>
  /\ threw' = FALSE
  /\ UNCHANGED <<sensorEnv, now, headingOffsetDeg, listeners, src, rafPending,
                 yaw, pitch, roll, lastGyroTs, lastEmit, headingMeas,
                 genericSensor, sensorActive, fusionReg, timerArmed, pointerReg,
                 dragging, lastX, lastY, stopFns, unsubFns, stopped,
                 dmSeen, headSeen, timerFired, unsubbed>>

setHeadingOffset(deg) ==
  /\ headingOffsetDeg' = deg
  /\ ev' = "setHeadingOffset"
  /\ calls' = <<>>
  /\ threw' = FALSE
  /\ UNCHANGED <<sensorEnv, now, smoothing, listeners, src, rafPending,
                 yaw, pitch, roll, lastGyroTs, lastEmit, headingMeas,
                 genericSensor, sensorActive, fusionReg, timerArmed, pointerReg,
                 dragging, lastX, lastY, stopFns, unsubFns, stopped,
                 dmSeen, headSeen, timerFired, unsubbed>>

getSource == src

\* stop() called by the host between events (not from inside a callback).
stop ==
  /\ rafPending' = FALSE
  /\ StopTeardown
  /\ listeners' = <<>>
  /\ ev' = "stop"
  /\ calls' = <<>>
  /\ threw' = FALSE
  /\ UNCHANGED <<sensorEnv, now, smoothing, headingOffsetDeg, src, yaw, pitch,
                 roll, lastGyroTs, lastEmit, headingMeas, genericSensor,
                 dragging, lastX, lastY, stopFns, unsubFns, dmSeen,
                 headSeen, timerFired, unsubbed>>

\* ----------------------------------------------------------- specification
\* A run is explored for MaxSteps operations after start.
Count == steps < MaxSteps /\ steps' = steps + 1 /\ UNCHANGED auxVars

\* What the callbacks subscribed at the moment may do when invoked.
Reacts == [Range(listeners) -> Reactions]

Advance == Count /\ advance
Tick == Count /\ \E react \in Reacts : tick(react)
Reading == Count /\ \E q \in Quats, react \in Reacts : onreading(q, react)
DeviceOrientation == Count /\ \E e \in DOEvents : onDO(e)
DeviceMotion == Count /\ \E e \in DMEvents, react \in Reacts : onDM(e, react)
Timeout == Count /\ timeout
PointerDown == Count /\ \E pt \in PointerPoints : onDown(pt[1], pt[2])
PointerUp == Count /\ onUp
PointerMove ==
  Count /\ \E pt \in PointerPoints, react \in Reacts : onMove(pt[1], pt[2], react)
Subscribe == Count /\ \E l \in Listeners : subscribe(l)
Unsubscribe == Count /\ \E l \in Listeners : unsubscribe(l)
SetSmoothing == Count /\ \E v \in SmoothingInputs : setSmoothing(v)
SetHeadingOffset == Count /\ \E d \in OffsetInputs : setHeadingOffset(d)
Stop == Count /\ stop

Next ==
  \/ Advance
  \/ Tick
  \/ Reading
  \/ DeviceOrientation
  \/ DeviceMotion
  \/ Timeout
  \/ PointerDown
  \/ PointerUp
  \/ PointerMove
  \/ Subscribe
  \/ Unsubscribe
  \/ SetSmoothing
  \/ SetHeadingOffset
  \/ Stop

Spec == Init /\ [][Next]_vars

\* The operations that emit a sample.
Emits == {"tick", "reading", "DM", "move"}

\* The browser runs a requested animation frame and an expired timer: tick
\* and the timeout are weakly fair.  Sensor, device and pointer events and
\* the host's calls may never come.
FairSpec == Spec /\ WF_vars(Tick) /\ WF_vars(Timeout)

\* The engine is left alone.
EngineIdle == UNCHANGED <<sensorEnv, now, engineVars, obsVars, steps>>

\* ------------------------------------------------ the numbers of the engine
\* NumSpec runs the engine on a platform without sensors, with a host whose
\* callbacks return normally, and widens the numbers instead: setSmoothing
\* arguments inside and outside [0, 0.3], heading offsets, and drags that
\* cross the 0/360 seam.  It explores MaxNumSteps operations.
MaxNumSteps == 7

NumSmoothings == {-5, 0, 30, 100}
NumOffsets == {0, 1800, -50}
NumPoints == {<<0, 0>>, <<100, 0>>, <<50, 5>>}
\* The devicemotion events, and one that only tilts (90 degrees per second
\* about the X axis, no gravity reading).
NumDMEvents ==
  DMEvents \cup
    { [rr |-> Some([alpha |-> 0, beta |-> 900, gamma |-> 0]), ag |-> NULL] }

NumCount ==
  /\ steps < MaxNumSteps /\ steps' = steps + 1
  /\ UNCHANGED <<geoVars, callVars, seamVars, renderVars>>

\* Every callback returns normally.
Quiet == [l \in Range(listeners) |-> "ret"]

\* startOrientation has run on a platform without a sensor constructor.
NoSensorInit == EngineInit /\ sensorEnv = "none" /\ AuxIdle

NumAdvance == NumCount /\ advance /\ UNCHANGED hostVars
NumTimeout == NumCount /\ timeout /\ UNCHANGED hostVars
NumSubscribe == NumCount /\ subscribe("l1") /\ UNCHANGED hostVars
NumTick == NumCount /\ tick(Quiet) /\ UNCHANGED hostVars
NumDeviceMotion ==
  NumCount /\ (\E e \in NumDMEvents : onDM(e, Quiet)) /\ UNCHANGED hostVars
NumPointerDown ==
  NumCount /\ (\E pt \in NumPoints : onDown(pt[1], pt[2])) /\ UNCHANGED hostVars
NumPointerMove ==
  NumCount /\ (\E pt \in NumPoints : onMove(pt[1], pt[2], Quiet))
           /\ UNCHANGED hostVars
NumSetSmoothing ==
  NumCount /\ page' = page
           /\ \E v \in NumSmoothings : setSmoothing(v) /\ setArg' = Some(v)
NumSetHeadingOffset ==
  NumCount /\ (\E d \in NumOffsets : setHeadingOffset(d)) /\ UNCHANGED hostVars

NumNext ==
  \/ NumAdvance
  \/ NumTimeout
  \/ NumSubscribe
  \/ NumTick
  \/ NumDeviceMotion
  \/ NumPointerDown
  \/ NumPointerMove
  \/ NumSetSmoothing
  \/ NumSetHeadingOffset

NumSpec == NoSensorInit /\ [][NumNext]_vars

\* ---------------------------------------------------- doubles at the seam
\* The code computes in IEEE doubles.  Near a multiple of 180 degrees a
\* double is written [k, n] = k * 180 + n * 2^-52 degrees, for small n.  The
\* doubles around 180 are 2^-45 apart (128 units), those around 360 are 2^-44
\* apart (256 units), those around 540 and beyond 2^-43 (512 units); around
\* 0 every such n is a double.  An addition is exact and then rounded to the
\* nearest double, ties to the even one; % is exact.
Fl(k, n) ==
  LET a == IF k < 0 THEN 0 - k ELSE k
      g == IF a = 0 THEN 1 ELSE IF a = 1 THEN 128 ELSE IF a = 2 THEN 256 ELSE 512
      lo == (n \div g) * g
      hi == lo + g
  IN [k |-> k,
      n |-> IF n - lo < hi - n THEN lo
            ELSE IF n - lo > hi - n THEN hi
            ELSE IF (lo \div g) % 2 = 0 THEN lo ELSE hi]

AddD(a, b) == Fl(a.k + b.k, a.n + b.n)

NegD(a) == a.k < 0 \/ (a.k = 0 /\ a.n < 0)

\* a % 360
Rem360D(a) ==
  LET pos(k, n) == IF n >= 0 THEN [k |-> k % 2, n |-> n]
                   ELSE [k |-> k - 2 * ((k - 1) \div 2), n |-> n]
      r == pos(0 - a.k, 0 - a.n)
  IN IF NegD(a) THEN [k |-> 0 - r.k, n |-> 0 - r.n] ELSE pos(a.k, a.n)

wrap360D(deg) ==
  LET d == Rem360D(deg) IN IF NegD(d) THEN AddD(d, [k |-> 2, n |-> 0]) ELSE d

wrap180D(deg) ==
  AddD(Rem360D(AddD(Rem360D(AddD(deg, [k |-> 1, n |-> 0])), [k |-> 2, n |-> 0])),
       [k |-> -1, n |-> 0])

\* smoothAngle on doubles whose minimal angular delta is near 0; the product
\* with the factor is truncated to the unit.
smoothAngleD(prev, next, factor) ==
  LET delta == wrap180D(AddD(next, [k |-> 0 - prev.k, n |-> 0 - prev.n]))
  IN wrap360D(AddD(prev, [k |-> 0, n |-> MulFactor(delta.n, factor)]))

\* Heading offsets the host may set: 0, -1e-13, -5e-14, +1e-13 degrees.
SeamOffsets ==
  {[k |-> 0, n |-> 0], [k |-> 0, n |-> -450], [k |-> 0, n |-> -225],
   [k |-> 0, n |-> 450]}

SeamCount ==
  /\ steps < MaxNumSteps /\ steps' = steps + 1
  /\ UNCHANGED <<geoVars, callVars, hostVars, renderVars>>

SeamSetHeadingOffset ==
  SeamCount /\ \E o \in SeamOffsets :
    setHeadingOffset(o.k * Half) /\ seamOff' = o /\ seamHead' = seamHead
\* tick() while no sensor or pointer event has moved yaw from 0.
SeamTick ==
  /\ SeamCount
  /\ tick(Quiet)
  /\ seamHead' = smoothAngleD(seamHead,
                              wrap360D(AddD([k |-> 0, n |-> 0], seamOff)),
                              smoothing)
  /\ seamOff' = seamOff

SeamNext ==
  \/ NumSubscribe
  \/ NumSetSmoothing
  \/ SeamSetHeadingOffset
  \/ SeamTick

SeamSpec == NoSensorInit /\ [][SeamNext]_vars

\* ------------------------------------------------------------ the renderer
\* Lengths are integer pixels and label widths are even, angles are tenths
\* of a degree, alpha is in thousandths and time in ms.  A city carries what
\* render derives from it: its key, its distance from the user (km), its
\* bearing, and the width measureLabel returns for its text.
MaxFrames == 4             \* render calls explored
MaxFadeFrames == 17        \* updateAlpha calls explored with one dt

fadeInPerSec == 4
fadeOutPerSec == 3
fixedLineHeight == 24

\* The cities array, not sorted: two cities of equal population 6 degrees
\* apart to the north, two behind and to the west, and one beyond every
\* radius tried.
Cities ==
  << [key |-> "b", distKm |-> 200, bearing |-> 60, population |-> 4, w |-> 120],
     [key |-> "e", distKm |-> 400, bearing |-> 2700, population |-> 1, w |-> 100],
     [key |-> "d", distKm |-> 5000, bearing |-> 30, population |-> 5, w |-> 120],
     [key |-> "a", distKm |-> 100, bearing |-> 0, population |-> 4, w |-> 120],
     [key |-> "c", distKm |-> 300, bearing |-> 1800, population |-> 2, w |-> 100] >>

Viewports == {<<320, 200>>, <<100, 30>>}
RenderInputs ==
  { [width |-> v[1], height |-> v[2], hfovDeg |-> 600, pitchDeg |-> 0,
     headingDeg |-> hd, maxDistanceKm |-> m, showOffscreenIndicators |-> so] :
       v \in Viewports, hd \in {0, 1800}, m \in {1000, 150}, so \in BOOLEAN }
NowInputs == {1000, 1050, 1100}

keyOf(c) == c.key

\* projection.ts.  estimateVfovDeg is the fraction <<numerator, denominator>>.
azimuthToScreenX(deltaAzDeg, hfovDeg, width) ==
  LET halfWidth == TruncDiv(width, 2)
      x == TruncDiv(deltaAzDeg * halfWidth, hfovDeg) + halfWidth
  IN Max(0, Min(width, x))

estimateVfovDeg(hfovDeg, width, height) == <<hfovDeg * height, Max(1, width)>>

pitchToScreenY(pitchDeg, vfovDeg, height) ==
  LET halfHeight == TruncDiv(height, 2)
      y == TruncDiv((0 - pitchDeg) * vfovDeg[2] * halfHeight, vfovDeg[1]) + halfHeight
  IN Max(0, Min(height, y))

isWithinFov(deltaAzDeg, hfovDeg) ==
  LET half == TruncDiv(hfovDeg, 2)
  IN deltaAzDeg >= 0 - half /\ deltaAzDeg <= half

\* Mutant: the sides are swapped.
edgeSide_swapped(deltaAzDeg) == IF deltaAzDeg < 0 THEN "right" ELSE "left"

edgeSide(deltaAzDeg) == IF deltaAzDeg < 0 THEN "left" ELSE "right"

\* Mutant: a frame fades by at least 16 ms worth.
updateAlpha_minStep(targetVisible, dt) ==
  LET step == Max(16, dt)
      keys == DOMAIN labelAlpha \cup targetVisible
      cur(k) == IF k \in DOMAIN labelAlpha THEN labelAlpha[k] ELSE 0
      next(k) == IF k \in targetVisible
                   THEN Min(1000, cur(k) + fadeInPerSec * step)
                   ELSE Max(0, cur(k) - fadeOutPerSec * step)
      kept == {k \in keys : ~(next(k) <= 0 /\ k \notin targetVisible)}
  IN [k \in kept |-> next(k)]

\* Mutant: a key whose alpha is at or below 0 is deleted, targeted or not.
updateAlpha_dropsZero(targetVisible, dt) ==
  LET keys == DOMAIN labelAlpha \cup targetVisible
      cur(k) == IF k \in DOMAIN labelAlpha THEN labelAlpha[k] ELSE 0
      next(k) == IF k \in targetVisible
                   THEN Min(1000, cur(k) + fadeInPerSec * dt)
                   ELSE Max(0, cur(k) - fadeOutPerSec * dt)
      kept == {k \in keys : ~(next(k) <= 0)}
  IN [k \in kept |-> next(k)]

\* updateAlpha(targetVisible, dt): the Map after the call (dt in ms).
updateAlpha(targetVisible, dt) ==
  LET keys == DOMAIN labelAlpha \cup targetVisible
      cur(k) == IF k \in DOMAIN labelAlpha THEN labelAlpha[k] ELSE 0
      next(k) == IF k \in targetVisible
                   THEN Min(1000, cur(k) + fadeInPerSec * dt)
                   ELSE Max(0, cur(k) - fadeOutPerSec * dt)
      kept == {k \in keys : ~(next(k) <= 0 /\ k \notin targetVisible)}
  IN [k \in kept |-> next(k)]

rectsOverlap(a, b) ==
  ~(a.x + a.w < b.x \/ b.x + b.w < a.x \/ a.y + a.h < b.y \/ b.y + b.h < a.y)

\* Mutant: the first candidate is returned without testing it.
findNonOverlappingY_untested(rect, pool, height, maxSteps) ==
  Some(Max(0, Min(height - rect.h, rect.y)))

\* Mutant: the rows are probed alternately above and below the anchor.
findNonOverlappingY_alternating(rect, pool, height, maxSteps) ==
  LET step == Max(12, rect.h + 6)
      baseY == rect.y
      candidates ==
        [i \in 1..(2 * maxSteps + 1) |->
           LET y == IF i = 1 THEN baseY
                    ELSE IF i % 2 = 0 THEN baseY - (i \div 2) * step
                    ELSE baseY + (i \div 2) * step
           IN Max(0, Min(height - rect.h, y))]
      free == {i \in DOMAIN candidates :
                 ~\E p \in Range(pool) :
                    rectsOverlap(p, [rect EXCEPT !.y = candidates[i]])}
  IN IF free = {} THEN NULL
     ELSE Some(candidates[CHOOSE i \in free : \A j \in free : i <= j])

\* findNonOverlappingY: NULL, or Some(y) for the first candidate row that
\* overlaps nothing in the pool.  The candidates are rect.y, then maxSteps
\* rows upward, then maxSteps rows downward, each clamped into the canvas
\* (the set `tried` only skips repeated rows).
findNonOverlappingY(rect, pool, height, maxSteps) ==
  LET step == Max(12, rect.h + 6)
      baseY == rect.y
      candidates ==
        [i \in 1..(2 * maxSteps + 1) |->
           LET y == IF i = 1 THEN baseY
                    ELSE IF i <= maxSteps + 1 THEN baseY - (i - 1) * step
                    ELSE baseY + (i - 1 - maxSteps) * step
           IN Max(0, Min(height - rect.h, y))]
      free == {i \in DOMAIN candidates :
                 ~\E p \in Range(pool) :
                    rectsOverlap(p, [rect EXCEPT !.y = candidates[i]])}
  IN IF free = {} THEN NULL
     ELSE Some(candidates[CHOOSE i \in free : \A j \in free : i <= j])

\* Mutant: the radius filter is missing.
inRadius_all(x, maxDistanceKm) == TRUE

\* The predicate of candidates.filter.
inRadius(x, maxDistanceKm) == x.distKm <= maxDistanceKm

\* Mutant: among candidates of equal population the last of the input
\* comes first.
RECURSIVE sortByPopulation_tiesReversed(_)
sortByPopulation_tiesReversed(cs) ==
  IF cs = <<>> THEN <<>>
  ELSE LET i == CHOOSE i \in 1..Len(cs) :
                  /\ \A j \in 1..Len(cs) : cs[j].population <= cs[i].population
                  /\ \A j \in (i + 1)..Len(cs) : cs[j].population < cs[i].population
       IN <<cs[i]>> \o sortByPopulation_tiesReversed(
                         SubSeq(cs, 1, i - 1) \o SubSeq(cs, i + 1, Len(cs)))

\* candidates.sort((a, b) => b.c.population - a.c.population), stable.
RECURSIVE sortByPopulation(_)
sortByPopulation(cs) ==
  IF cs = <<>> THEN <<>>
  ELSE LET i == CHOOSE i \in 1..Len(cs) :
                  /\ \A j \in 1..Len(cs) : cs[j].population <= cs[i].population
                  /\ \A j \in 1..(i - 1) : cs[j].population < cs[i].population
       IN <<cs[i]>> \o sortByPopulation(SubSeq(cs, 1, i - 1) \o SubSeq(cs, i + 1, Len(cs)))

\* Mutant: a key that is not in the Map yet counts as fully faded in.
alphaOf_fresh(fade, key) == IF key \in DOMAIN fade THEN fade[key] ELSE 1000

\* labelAlpha.get(key) ?? 0, with the Map given as fade.
alphaOf(fade, key) == IF key \in DOMAIN fade THEN fade[key] ELSE 0

\* Mutant: nothing is too faint.
tooFaint_never(alpha) == FALSE

\* The test of `if (alpha <= 0.01) continue;`.
tooFaint(alpha) == alpha <= 10

\* Mutant: an on-screen candidate that is too faint is targeted but claims
\* no slot, as in the edge branch.
RECURSIVE placeAll_faintClaimsNothing(_, _, _, _)
placeAll_faintClaimsNothing(items, in, fade, st) ==
  IF items = <<>> THEN st
  ELSE
    LET item == Head(items)
        key == keyOf(item)
        deltaAz == wrap180(item.bearing - in.headingDeg)
        offscreen == ~isWithinFov(deltaAz, in.hfovDeg)
        w == item.w
        h == fixedLineHeight
        horizonY == pitchToScreenY(in.pitchDeg,
                      estimateVfovDeg(in.hfovDeg, in.width, in.height), in.height)
        x == azimuthToScreenX(deltaAz, in.hfovDeg, in.width)
        yBase == Max(0, Min(in.height - 24, horizonY - 6))
        rect == [x |-> Max(4, Min(in.width - w - 4, x - TruncDiv(w, 2))),
                 y |-> yBase - h, w |-> w, h |-> h, key |-> key]
        alpha == alphaOf(fade, key)
        side == edgeSide(deltaAz)
        edgeY == Max(0, Min(in.height - h, horizonY - TruncDiv(h, 2)))
        edgeRect == IF side = "left"
                      THEN [x |-> 6, y |-> edgeY, w |-> w, h |-> h, key |-> key]
                      ELSE [x |-> in.width - 6 - w, y |-> edgeY, w |-> w, h |-> h,
                            key |-> key]
        used == IF side = "left" THEN st.edgeLeftPlaced ELSE st.edgeRightPlaced
        maxSteps == (in.height + h + 5) \div (h + 6) + 2
        yPlaced == findNonOverlappingY(rect, st.placed, in.height, maxSteps)
        yEdge == findNonOverlappingY(edgeRect, used, in.height, maxSteps)
        seen == [st EXCEPT !.visibleKeys = @ \cup {key}]
        card == [key |-> key, kind |-> "card", globalAlpha |-> alpha]
        chevron == [key |-> key, kind |-> "chevron", globalAlpha |-> alpha]
        st1 ==
          IF ~offscreen
            THEN IF tooFaint(alpha) THEN seen
                 ELSE IF yPlaced = NULL THEN st
                 ELSE [seen EXCEPT
                         !.placed = Append(@, [rect EXCEPT !.y = Val(yPlaced)]),
                         !.drawn = IF tooFaint(alpha) THEN @ ELSE Append(@, card)]
          ELSE IF ~in.showOffscreenIndicators THEN seen
          ELSE IF tooFaint(alpha) THEN seen
          ELSE IF yEdge = NULL THEN seen
          ELSE IF side = "left"
            THEN [seen EXCEPT
                    !.edgeLeftPlaced = Append(@, [edgeRect EXCEPT !.y = Val(yEdge)]),
                    !.drawn = Append(@, chevron)]
          ELSE [seen EXCEPT
                  !.edgeRightPlaced = Append(@, [edgeRect EXCEPT !.y = Val(yEdge)]),
                  !.drawn = Append(@, chevron)]
    IN placeAll_faintClaimsNothing(Tail(items), in, fade, st1)

\* The for loop of render over the sorted candidates.  st holds the three
\* pools, the visible-target set and the draws issued so far (a card with
\* its text, or a chevron with its text, under ctx.globalAlpha = alpha); a
\* rect also records the key it was placed for.  fade is the Map labelAlpha
\* as the loop reads it.
RECURSIVE placeAll(_, _, _, _)
placeAll(items, in, fade, st) ==
  IF items = <<>> THEN st
  ELSE
    LET item == Head(items)
        key == keyOf(item)
        deltaAz == wrap180(item.bearing - in.headingDeg)
        offscreen == ~isWithinFov(deltaAz, in.hfovDeg)
        w == item.w
        h == fixedLineHeight
        horizonY == pitchToScreenY(in.pitchDeg,
                      estimateVfovDeg(in.hfovDeg, in.width, in.height), in.height)
        x == azimuthToScreenX(deltaAz, in.hfovDeg, in.width)
        yBase == Max(0, Min(in.height - 24, horizonY - 6))
        rect == [x |-> Max(4, Min(in.width - w - 4, x - TruncDiv(w, 2))),
                 y |-> yBase - h, w |-> w, h |-> h, key |-> key]
        alpha == alphaOf(fade, key)
        side == edgeSide(deltaAz)
        edgeY == Max(0, Min(in.height - h, horizonY - TruncDiv(h, 2)))
        edgeRect == IF side = "left"
                      THEN [x |-> 6, y |-> edgeY, w |-> w, h |-> h, key |-> key]
                      ELSE [x |-> in.width - 6 - w, y |-> edgeY, w |-> w, h |-> h,
                            key |-> key]
        used == IF side = "left" THEN st.edgeLeftPlaced ELSE st.edgeRightPlaced
        maxSteps == (in.height + h + 5) \div (h + 6) + 2
        yPlaced == findNonOverlappingY(rect, st.placed, in.height, maxSteps)
        yEdge == findNonOverlappingY(edgeRect, used, in.height, maxSteps)
        seen == [st EXCEPT !.visibleKeys = @ \cup {key}]
        card == [key |-> key, kind |-> "card", globalAlpha |-> alpha]
        chevron == [key |-> key, kind |-> "chevron", globalAlpha |-> alpha]
        st1 ==
          IF ~offscreen
            THEN IF yPlaced = NULL THEN st
                 ELSE [seen EXCEPT
                         !.placed = Append(@, [rect EXCEPT !.y = Val(yPlaced)]),
                         !.drawn = IF tooFaint(alpha) THEN @ ELSE Append(@, card)]
          ELSE IF ~in.showOffscreenIndicators THEN seen
          ELSE IF tooFaint(alpha) THEN seen
          ELSE IF yEdge = NULL THEN seen
          ELSE IF side = "left"
            THEN [seen EXCEPT
                    !.edgeLeftPlaced = Append(@, [edgeRect EXCEPT !.y = Val(yEdge)]),
                    !.drawn = Append(@, chevron)]
          ELSE [seen EXCEPT
                  !.edgeRightPlaced = Append(@, [edgeRect EXCEPT !.y = Val(yEdge)]),
                  !.drawn = Append(@, chevron)]
    IN placeAll(Tail(items), in, fade, st1)

\* render(ctx, input, now, lastNowRef): the pools, the label draws and the
\* fade update (the horizon line and the minimap are left out).
render(in, t) ==
  LET candidates ==
        sortByPopulation(SelectSeq(Cities, LAMBDA x : inRadius(x, in.maxDistanceKm)))
      dt == IF lastNowRef # 0 THEN Min(100, t - lastNowRef) ELSE 0
      st == placeAll(candidates, in, labelAlpha,
                     [placed |-> <<>>, edgeLeftPlaced |-> <<>>,
                      edgeRightPlaced |-> <<>>, visibleKeys |-> {},
                      drawn |-> <<>>])
  IN /\ lastNowRef' = t
     /\ lastDt' = dt
     /\ input' = in
     /\ placed' = st.placed
     /\ edgeLeftPlaced' = st.edgeLeftPlaced
     /\ edgeRightPlaced' = st.edgeRightPlaced
     /\ visibleKeys' = st.visibleKeys
     /\ drawn' = st.drawn
     /\ labelAlpha' = updateAlpha(st.visibleKeys, dt)

\* One frame of the caller's loop.
Render ==
  /\ frames < MaxFrames
  /\ frames' = frames + 1
  /\ \E in \in RenderInputs, t \in NowInputs : render(in, t)
  /\ EngineIdle
  /\ UNCHANGED <<geoVars, callVars, hostVars, seamVars>>

RenderSpec == NoSensorInit /\ [][Render]_vars

\* ------------------------------------------------- geo.ts called directly
\* The angle helpers are exported pure functions (the renderer calls wrap180
\* on bearing - heading).  GeoSpec calls wrap180 on arguments around every
\* multiple of 180 degrees, in tenths of a degree.
WrapInputs == {k * Half + j : k \in -4..4, j \in -6..6}

GeoInit ==
  /\ EngineInit /\ sensorEnv = "none"
  /\ wrapArg \in WrapInputs /\ wrapRes = NULL
  /\ CallIdle /\ HostIdle /\ SeamIdle /\ RenderIdle

Wrap180Call ==
  /\ wrapRes = NULL
  /\ wrapRes' = Some(wrap180(wrapArg))
  /\ wrapArg' = wrapArg
  /\ EngineIdle
  /\ UNCHANGED <<callVars, hostVars, seamVars, renderVars>>

GeoSpec == GeoInit /\ [][Wrap180Call]_vars

\* ------------------------------------------------------- the frame loop
\* main.ts: the engine started at load on a platform without sensors, the
\* page's raf loop, and the subscriber raf attaches at its first run, which
\* stores each sample on window.  The browser runs the callbacks of one
\* animation frame in the order they were requested, tick before raf, with
\* no other task in between.  The subscriber of the debug panel stores
\* nothing that raf reads and is left out.
FrameBoundary == ~(ev = "tick" /\ page.rafQueued)

\* Mutant: the subscriber keeps the first sample it sees.
Stored_first ==
  IF (\E i \in 1..Len(calls') : calls'[i].fn = "l1") /\ page.arcHeading = NULL
    THEN [page EXCEPT !.arcHeading = Some(lastEmit'.headingDeg),
                      !.arcPitch = Some(lastEmit'.pitchDeg),
                      !.emitted = TRUE]
  ELSE [page EXCEPT !.emitted = TRUE]

\* What the subscriber attached by raf stores when the emission calls it.
Stored ==
  IF \E i \in 1..Len(calls') : calls'[i].fn = "l1"
    THEN [page EXCEPT !.arcHeading = Some(lastEmit'.headingDeg),
                      !.arcPitch = Some(lastEmit'.pitchDeg),
                      !.emitted = TRUE]
  ELSE [page EXCEPT !.emitted = TRUE]

FrameTick ==
  /\ FrameBoundary
  /\ NumCount /\ tick(Quiet) /\ page' = Stored /\ setArg' = setArg

FrameDeviceMotion ==
  /\ FrameBoundary
  /\ NumCount /\ (\E e \in DMEvents : onDM(e, Quiet))
  /\ page' = Stored /\ setArg' = setArg

\* The geolocation callback (or the manual position form) after cities.json
\* has loaded.  Both follow a user gesture on the presented page, so the
\* first animation frame has run by then.
LocationFix ==
  /\ FrameBoundary /\ ~page.haveLocation /\ page.arcBound
  /\ NumCount /\ UNCHANGED <<sensorEnv, now, engineVars, obsVars>>
  /\ page' = [page EXCEPT !.haveLocation = TRUE] /\ setArg' = setArg

\* raf(): read window.__arc_*, attach the subscriber once, draw, request the
\* next frame.  `throws` tells whether the drawing surface throws in this
\* frame (before render assigns anything).
FrameRaf ==
  \E throws \in BOOLEAN :
  LET latestHeading == IF page.arcHeading = NULL THEN 0 ELSE Val(page.arcHeading)
      latestPitch == IF page.arcPitch = NULL THEN 0 ELSE Val(page.arcPitch)
      draws == page.haveLocation /\ ~throws
  IN /\ page.rafQueued
     /\ ev = "tick" \/ ~rafPending
     /\ steps < MaxNumSteps /\ steps' = steps + 1
     /\ IF page.arcBound THEN UNCHANGED <<sensorEnv, now, engineVars, obsVars>>
        ELSE subscribe("l1")
     /\ IF draws
          THEN render([width |-> 320, height |-> 200, hfovDeg |-> 600,
                       pitchDeg |-> latestPitch, headingDeg |-> latestHeading,
                       maxDistanceKm |-> 1000,
                       showOffscreenIndicators |-> FALSE], now)
                 /\ frames' = frames + 1
          ELSE UNCHANGED renderVars
     /\ page' = [page EXCEPT
                   !.arcBound = TRUE,
                   !.rafQueued = ~throws,
                   !.failed = throws,
                   !.rendered = IF draws THEN @ + 1 ELSE @,
                   !.passed = IF draws THEN Some(<<latestHeading, latestPitch>>)
                              ELSE @]
     /\ UNCHANGED <<geoVars, callVars, seamVars, setArg>>

FrameSpec ==
  NoSensorInit /\ [][FrameTick \/ FrameDeviceMotion \/ LocationFix \/ FrameRaf]_vars

\* ------------------------------------- layout helpers called on their own
\* pitchToScreenY for two pitch angles on one viewport, with the vertical
\* field of view render passes.
PitchInputs ==
  { [fn |-> "pitchToScreenY", pitchDeg |-> p, otherPitchDeg |-> q,
     hfovDeg |-> 600, width |-> v[1], height |-> v[2]] :
       p \in {-900, -300, -10, 0, 10, 300, 900},
       q \in {-900, -300, -10, 0, 10, 300, 900},
       v \in Viewports }

PitchCall ==
  /\ callArg.fn = "pitchToScreenY" /\ callRes = NULL
  /\ LET vfovDeg == estimateVfovDeg(callArg.hfovDeg, callArg.width, callArg.height)
     IN callRes' = Some(<<pitchToScreenY(callArg.pitchDeg, vfovDeg, callArg.height),
                          pitchToScreenY(callArg.otherPitchDeg, vfovDeg, callArg.height)>>)
  /\ callArg' = callArg
  /\ EngineIdle
  /\ UNCHANGED <<geoVars, hostVars, seamVars, renderVars>>

\* findNonOverlappingY as render calls it for a label of the fixed line
\* height: the anchor row, a pool of labels over the same columns on some of
\* the rows, and the step budget of render.
SlotInputs ==
  { [fn |-> "findNonOverlappingY",
     rect |-> [x |-> 4, y |-> y0, w |-> 100, h |-> fixedLineHeight, key |-> "new"],
     pool |-> SelectSeq([i \in 1..5 |->
                           [x |-> 4, y |-> 30 * i - 20, w |-> 100,
                            h |-> fixedLineHeight, key |-> "old"]],
                        LAMBDA r : r.y \in rows),
     height |-> v[2],
     maxSteps |-> (v[2] + fixedLineHeight + 5) \div (fixedLineHeight + 6) + 2] :
       y0 \in {70, 0, 176}, rows \in SUBSET {10, 40, 70, 100, 130},
       v \in Viewports }

SlotCall ==
  /\ callArg.fn = "findNonOverlappingY" /\ callRes = NULL
  /\ callRes' = Some(findNonOverlappingY(callArg.rect, callArg.pool,
                                         callArg.height, callArg.maxSteps))
  /\ callArg' = callArg
  /\ EngineIdle
  /\ UNCHANGED <<geoVars, hostVars, seamVars, renderVars>>

CallInit ==
  /\ EngineInit /\ sensorEnv = "none"
  /\ callArg \in PitchInputs \cup SlotInputs /\ callRes = NULL
  /\ GeoIdle /\ HostIdle /\ SeamIdle /\ RenderIdle

CallSpec == CallInit /\ [][PitchCall \/ SlotCall]_vars

\* ------------------------------------------------- the fade in doubles
\* updateAlpha computes in IEEE doubles.  For a denominator D, a double near
\* k / D is written [k, n] = k / D + n / (D * 2^58), for small n.  In
\* [2^-x, 2^(1-x)), x = 0..6, the doubles are 2^(-x-52) apart, which is
\* D * 2^(6-x) units.  A sum or difference is exact and then rounded to the
\* nearest double, ties to the even one; the difference of two doubles
\* within a factor 2 of each other is itself a double.
RECURSIVE Pow2Mod(_, _)
Pow2Mod(p, m) == IF p = 0 THEN 1 % m ELSE (2 * Pow2Mod(p - 1, m)) % m

RoundD(k, n, D) ==
  IF k <= 0 THEN [k |-> k, n |-> n]
  ELSE
    LET atLeast(x) == k * 2^x > D \/ (k * 2^x = D /\ n >= 0)
        x == CHOOSE x \in 0..6 : atLeast(x) /\ \A y \in 0..(x - 1) : ~atLeast(y)
        U == D * 2^(6 - x)
        r == (k * Pow2Mod(58, U) + n) % U
        odd == (k * Pow2Mod(58, 2 * U) + n) % (2 * U) >= U
    IN [k |-> k,
        n |-> IF 2 * r < U THEN n - r
              ELSE IF 2 * r > U THEN n + U - r
              ELSE IF odd THEN n + U - r ELSE n - r]

\* a <= b
LeqD(a, b) == a.k < b.k \/ (a.k = b.k /\ a.n <= b.n)

\* The product rate * dt of updateAlpha for the frame interval dt that is
\* the double nearest to m / (rate * D) seconds: `step` is the product as
\* the code computes it, `over` tells whether dt >= m / (rate * D).
\* fadeInPerSec * dt is exact (a power of two); fadeOutPerSec * dt is
\* rounded.
RateTimesDt(targeted, m, D) ==
  IF targeted
    THEN LET s == RoundD(m, 0, D) IN [step |-> s, over |-> s.n >= 0]
  ELSE
    LET den == fadeOutPerSec * D
        x == CHOOSE x \in 0..6 : den <= m * 2^x /\ \A y \in 0..(x - 1) : den > m * 2^y
        c == (m * Pow2Mod(x + 52, den)) % den
        d == IF 2 * c < den THEN 0 - c ELSE den - c
    IN [step |-> RoundD(m, d * 2^(6 - x), D), over |-> d >= 0]

\* updateAlpha(targetVisible, dt) on doubles: the Map after the call.
updateAlphaD(targetVisible, step, D) ==
  LET keys == DOMAIN labelAlpha \cup targetVisible
      cur(k) == IF k \in DOMAIN labelAlpha THEN labelAlpha[k] ELSE [k |-> 0, n |-> 0]
      up(k) == RoundD(cur(k).k + step.k, cur(k).n + step.n, D)
      down(k) == RoundD(cur(k).k - step.k, cur(k).n - step.n, D)
      next(k) == IF k \in targetVisible
                   THEN IF LeqD([k |-> D, n |-> 0], up(k))
                          THEN [k |-> D, n |-> 0] ELSE up(k)
                   ELSE IF LeqD(down(k), [k |-> 0, n |-> 0])
                          THEN [k |-> 0, n |-> 0] ELSE down(k)
      kept == {k \in keys : ~(LeqD(next(k), [k |-> 0, n |-> 0]) /\ k \notin targetVisible)}
  IN [k \in kept |-> next(k)]

\* One key, targeted in every frame or in none, a frame interval of
\* m / (rate * D) seconds (25 and 50 ms, 1/60 and 1/30 s fading in; 1/30,
\* 1/15, 1/45 and 2/45 s fading out) and a starting alpha start / D.
FadeInputs ==
  { [fn |-> "updateAlpha", targeted |-> t, D |-> D, m |-> m, start |-> j] :
      t \in BOOLEAN, D \in {10, 15}, m \in {1, 2}, j \in {0, 3, 5, 10, 15} }

FadeInit ==
  /\ EngineInit /\ sensorEnv = "none"
  /\ callArg \in FadeInputs /\ callArg.start <= callArg.D /\ callRes = NULL
  /\ GeoIdle /\ HostIdle /\ SeamIdle
  /\ labelAlpha = [k \in {"x"} |-> RoundD(callArg.start, 0, callArg.D)]
  /\ visibleKeys = IF callArg.targeted THEN {"x"} ELSE {}
  /\ lastNowRef = 0 /\ lastDt = 0 /\ frames = 0
  /\ input = [width |-> 0, height |-> 0, hfovDeg |-> 0, pitchDeg |-> 0,
              headingDeg |-> 0, maxDistanceKm |-> 0,
              showOffscreenIndicators |-> FALSE]
  /\ placed = <<>> /\ edgeLeftPlaced = <<>> /\ edgeRightPlaced = <<>>
  /\ drawn = <<>>

\* updateAlpha called once more with the same target set and the same dt.
FadeFrame ==
  /\ callArg.fn = "updateAlpha"
  /\ frames < MaxFadeFrames
  /\ frames' = frames + 1
  /\ labelAlpha' = updateAlphaD(visibleKeys,
                     RateTimesDt(callArg.targeted, callArg.m, callArg.D).step,
                     callArg.D)
  /\ UNCHANGED <<lastNowRef, lastDt, input, placed, edgeLeftPlaced,
                 edgeRightPlaced, visibleKeys, drawn>>
  /\ EngineIdle
  /\ UNCHANGED <<geoVars, callVars, hostVars, seamVars>>

FadeSpec == FadeInit /\ [][FadeFrame]_vars

\* ================================================================== claims

\* C1: after stop() has returned no subscriber callback is invoked again,
\* neither later in the emission that was running nor by any later event.
C1_NoCallbackAfterStop ==
  [][ /\ stopped => calls' = <<>>
      /\ \A i \in 1..Len(calls') : ~calls'[i].afterStop ]_vars

\* C2: stop() cancels the fixed-rate tick: once stop() has returned no
\* animation frame is requested or pending, from whichever context stop()
\* was called.
C2_StopCancelsTick == stopped => ~rafPending

\* C3: once stop() has returned, the device-orientation, device-motion and
\* pointer listeners are unregistered and the grace timer is cancelled, and
\* from then on no listener is registered and the source never changes.
C3_StopUnregisters ==
  [][ /\ stopped' => (~fusionReg' /\ ~pointerReg' /\ ~timerArmed')
      /\ stopped => src' = src ]_vars

C3_Witness == stopped /\ src = SrcVirtual /\ timerFired /\ ev = "advance"

\* C4: the source changes only when the grace timer expires, only from
\* device fusion to virtual, and at expiry it changes if and only if no
\* device-motion event and no heading measurement has arrived since start.
C4_FallbackIffSilent ==
  [][ /\ (timerFired' /\ ~timerFired) =>
            ((src' = SrcVirtual) <=> (~dmSeen /\ ~headSeen))
      /\ src' # src =>
            (timerFired' /\ ~timerFired /\ src = SrcFusion /\ src' = SrcVirtual) ]_vars

C4_Witness == timerFired /\ src = SrcFusion /\ headSeen /\ ~dmSeen /\ ~stopped

\* C5: when there is no sensor constructor, or constructing or starting the
\* sensor throws, startOrientation returns normally with the device-fusion
\* source selected and the orientation and motion listeners registered, and
\* stays so until the grace timer fires or stop() is called.
C5_FailureFallsBackToFusion ==
  (sensorEnv # "ok" /\ ~timerFired /\ ~stopped) =>
    /\ ev = "start" => ~threw
    /\ getSource = SrcFusion
    /\ fusionReg
    /\ timerArmed

C5_Witness == sensorEnv = "startThrows" /\ ev = "start" /\ genericSensor # NoSensor

\* C6: in VirtualFallback a device-orientation or device-motion event
\* changes neither yaw, pitch, roll nor anything that is emitted.
C6_VirtualIgnoresSensors ==
  [][ (src = SrcVirtual /\ ev' \in {"DO", "DM"}) =>
        (yaw' = yaw /\ pitch' = pitch /\ roll' = roll /\ calls' = <<>>) ]_vars

\* C7: while the engine runs, a subscribed listener eventually receives a
\* sample (within the explored run), whatever sensors deliver.
C7_EventuallySample ==
  \A l \in Listeners :
    [](( l \in Range(listeners) /\ ~stopped /\ steps < MaxSteps) =>
        <>( \/ \E i \in 1..Len(calls) : calls[i].fn = l
            \/ l \notin Range(listeners)
            \/ stopped
            \/ steps = MaxSteps ))

\* C8: an emission during which stop() is not called invokes every listener
\* subscribed when it begins exactly once, in order, with the emitted sample.
C8_EveryListenerOnce ==
  [][ (ev' \in Emits /\ stopped' = stopped) =>
        /\ Len(calls') = Len(listeners)
        /\ \A i \in 1..Len(calls') :
              calls'[i].fn = listeners[i] /\ calls'[i].sample = lastEmit' ]_vars

\* C9: the timestamps of successive emissions never decrease, and every
\* callback of an emission receives the emission's timestamp, so the
\* timestamps any one subscriber receives are non-decreasing.
C9_TimestampsMonotone ==
  [][ ev' \in Emits =>
        /\ lastEmit'.timestamp >= lastEmit.timestamp
        /\ \A i \in 1..Len(calls') :
              calls'[i].sample.timestamp = lastEmit'.timestamp ]_vars

C9_Witness ==
  /\ ev = "tick" /\ calls # <<>> /\ dmSeen
  /\ lastEmit.timestamp > T0

C13_Wrap180HalfOpen ==
  wrapRes # NULL =>
    /\ Val(wrapRes) > 0 - Half
    /\ Val(wrapRes) <= Half
    /\ JsRem(wrapArg - Half, Full) = 0 => Val(wrapRes) = Half

\* C11: every OrientationSample delivered to a subscriber has
\* 0 <= headingDeg < 360, whatever heading offsets and smoothing values the
\* host sets (the value delivered is the double seamHead).
C11_HeadingInRange ==
  \A i \in 1..Len(calls) :
    /\ calls[i].sample.headingDeg >= 0
    /\ calls[i].sample.headingDeg < Full
    /\ ~NegD(seamHead)
    /\ seamHead.k < 2 \/ (seamHead.k = 2 /\ seamHead.n < 0)

\* C12: on each emission the emitted heading moves from the previously
\* emitted heading toward the target (yaw plus offset, modulo 360) along a
\* shorter arc and by at most the length of that arc: it never passes the
\* target and never goes the long way round through 180 degrees.
C12_ShortestArc ==
  [][ ev' \in Emits =>
        LET prev == lastEmit.headingDeg
            target == (yaw' + headingOffsetDeg') % Full
            new == lastEmit'.headingDeg
            cw == (target - prev) % Full
            ccw == (prev - target) % Full
        IN \/ cw <= ccw /\ (new - prev) % Full <= cw
           \/ ccw <= cw /\ (prev - new) % Full <= ccw ]_vars

\* A drag of -100 px from heading 0 turned the target to 350 degrees, and the
\* emitted heading went down through the seam by a fraction of the 10 degrees.
C12_Witness ==
  /\ ev = "move" /\ calls # <<>> /\ yaw = 3500 /\ headingOffsetDeg = 0
  /\ smoothing > 0
  /\ lastEmit.headingDeg > 3500 /\ lastEmit.headingDeg < Full

\* C14 as claimed: in VirtualFallback a drag with horizontal delta dx and
\* dy = 0 changes the heading delivered to subscribers by dx * 0.1 degrees
\* modulo 360.
C14_DragTurnsDelivered ==
  [][ (ev' = "move" /\ src = SrcVirtual /\ lastY' = lastY) =>
        \A i \in 1..Len(calls') :
          calls'[i].sample.headingDeg =
            (lastEmit.headingDeg + (lastX' - lastX) * SensitivityTenths) % Full ]_vars

\* C14 as amended: the drag changes yaw, the target heading before offset
\* and smoothing, by dx * 0.1 degrees modulo 360; the heading delivered by
\* that emission is the previous one moved toward yaw + offset by the
\* fraction 1 - exp(-smoothing) of the minimal angular delta.
C14_DragTurnsYaw ==
  [][ (ev' = "move" /\ src = SrcVirtual /\ lastY' = lastY) =>
        LET prev == lastEmit.headingDeg
            target == (yaw' + headingOffsetDeg) % Full
            delta == ((target - prev + Half) % Full) - Half
        IN /\ yaw' = (yaw + (lastX' - lastX) * SensitivityTenths) % Full
           /\ \A i \in 1..Len(calls') :
                 calls'[i].sample.headingDeg =
                   (prev + MulFactor(delta, smoothing)) % Full ]_vars

\* After the fallback a drag of 100 px turned yaw by 10 degrees and the
\* subscriber received 1.3 degrees.
C14_Witness ==
  /\ ev = "move" /\ src = SrcVirtual /\ calls # <<>>
  /\ lastX = 100 /\ lastY = 0 /\ yaw = 100
  /\ calls[1].sample.headingDeg = 13

\* C15: after setSmoothing(v), for any v, the smoothing value is v clamped
\* into [0, 0.3], and that value is the one the emissions that follow use.
C15_SetSmoothingClamps ==
  [][ LET clamped == Max(0, Min(SmoothMaxH, Val(setArg')))
      IN setArg' # NULL =>
           /\ smoothing' = clamped
           /\ ev' \in Emits =>
                 /\ lastEmit'.headingDeg =
                      smoothAngle(lastEmit.headingDeg,
                                  wrap360(yaw' + headingOffsetDeg'), clamped)
                 /\ lastEmit'.pitchDeg =
                      smoothLinear(lastEmit.pitchDeg, pitch', clamped) ]_vars

\* setSmoothing(1.0) was called and a later tick delivered a sample.
C15_Witness ==
  /\ setArg = Some(100) /\ smoothing = SmoothMaxH
  /\ ev = "tick" /\ calls # <<>>

\* The rectangles of the last frame, pool by pool and all together.
Pools == <<placed, edgeLeftPlaced, edgeRightPlaced>>
AllRects == Range(placed) \cup Range(edgeLeftPlaced) \cup Range(edgeRightPlaced)

\* C16: in every frame no two rectangles of the same pool (on-screen,
\* left-edge lane, right-edge lane) overlap.
C16_PoolsCollisionFree ==
  \A p \in 1..3 : \A i, j \in 1..Len(Pools[p]) :
    i < j =>
      LET a == Pools[p][i]
          b == Pools[p][j]
      IN ~(a.x < b.x + b.w /\ b.x < a.x + a.w /\ a.y < b.y + b.h /\ b.y < a.y + a.h)

\* A frame with two on-screen labels that share columns, the second moved
\* to another row, and two indicators stacked in the left lane.
C16_Witness ==
  /\ Len(placed) = 2 /\ Len(edgeLeftPlaced) = 2
  /\ placed[2].x < placed[1].x + placed[1].w
  /\ placed[1].x < placed[2].x + placed[2].w
  /\ placed[2].y # placed[1].y
  /\ edgeLeftPlaced[2].y # edgeLeftPlaced[1].y

\* C17: every rectangle added to the on-screen, left-edge or right-edge pool
\* lies within the viewport, for every label width and viewport size.
C17_RectsInsideViewport ==
  \A r \in AllRects :
    /\ 0 <= r.x /\ r.x + r.w <= input.width
    /\ 0 <= r.y /\ r.y + r.h <= input.height

\* C18: an entity farther than maxDistanceKm gets no rectangle in any pool
\* and its key is not in the frame's visible-target set.
C18_BeyondRadiusExcluded ==
  \A i \in 1..Len(Cities) :
    (frames > 0 /\ Cities[i].distKm > input.maxDistanceKm) =>
      /\ keyOf(Cities[i]) \notin visibleKeys
      /\ \A r \in AllRects : r.key # keyOf(Cities[i])

\* The radius was lowered to 150 km: city b (200 km) is out of the frame
\* while its alpha from earlier frames is still stored, and city a is placed.
C18_Witness ==
  /\ frames > 0 /\ input.maxDistanceKm = 150
  /\ "b" \in DOMAIN labelAlpha /\ "b" \notin visibleKeys
  /\ \E r \in Range(placed) : r.key = "a"

\* C19: every candidate within maxDistanceKm contributes its key to the
\* frame's visible-target set, whether placed, dropped or off-screen.
C19_EveryCandidateTargeted ==
  \A i \in 1..Len(Cities) :
    (frames > 0 /\ Cities[i].distKm <= input.maxDistanceKm) =>
      keyOf(Cities[i]) \in visibleKeys

C28_SourceTerminal ==
  [][ /\ getSource = SrcGeneric => getSource' = SrcGeneric
      /\ getSource = SrcVirtual => getSource' = SrcVirtual
      /\ getSource = SrcFusion => getSource' \in {SrcFusion, SrcVirtual} ]_vars

C28_Witness ==
  getSource = SrcVirtual /\ timerFired /\ ev = "move" /\ calls # <<>> /\ ~stopped

C23_RenderIdempotent ==
  [][ (frames >= 1 /\ input' = input /\ lastDt = 0 /\ lastDt' = 0) =>
        /\ placed' = placed
        /\ edgeLeftPlaced' = edgeLeftPlaced
        /\ edgeRightPlaced' = edgeRightPlaced
        /\ labelAlpha' = labelAlpha ]_vars

C23_Witness ==
  /\ frames = 2 /\ lastDt = 0
  /\ Len(placed) >= 2 /\ DOMAIN labelAlpha # {}

\* C24: after a render call, a candidate whose deltaAz is outside
\* [-hfov/2, hfov/2] is not in the on-screen pool and, if it is in an edge
\* lane, indicators are enabled and the lane is the left one when
\* deltaAz < 0 and the right one otherwise; a candidate within the field of
\* view is in no edge lane.
C24_RoutedBySide ==
  frames > 0 =>
    \A i \in 1..Len(Cities) :
      LET key == keyOf(Cities[i])
          deltaAz == wrap180(Cities[i].bearing - input.headingDeg)
          outside == \/ 2 * deltaAz < 0 - input.hfovDeg
                     \/ 2 * deltaAz > input.hfovDeg
          inPool(pool) == \E j \in 1..Len(pool) : pool[j].key = key
      IN /\ outside => ~inPool(placed)
         /\ inPool(edgeLeftPlaced) =>
              input.showOffscreenIndicators /\ outside /\ deltaAz < 0
         /\ inPool(edgeRightPlaced) =>
              input.showOffscreenIndicators /\ outside /\ deltaAz >= 0

\* One frame with both lanes and the on-screen pool in use.
C24_Witness ==
  /\ frames > 0 /\ input.showOffscreenIndicators
  /\ edgeLeftPlaced # <<>> /\ edgeRightPlaced # <<>> /\ placed # <<>>

\* C25: pitchToScreenY is non-decreasing in pitchDeg (a larger pitch gives a
\* y at least as large: the horizon moves down the screen), returns
\* height / 2 at pitch 0, and its result lies in [0, height].
C25_PitchMovesHorizonDown ==
  (callArg.fn = "pitchToScreenY" /\ callRes # NULL) =>
    LET y == Val(callRes)[1]
        otherY == Val(callRes)[2]
    IN /\ callArg.pitchDeg <= callArg.otherPitchDeg => y <= otherY
       /\ callArg.pitchDeg = 0 => 2 * y = callArg.height
       /\ y >= 0 /\ y <= callArg.height

\* C30: the slot search returns the first row that overlaps nothing in the
\* pool in the alternating sequence y0, y0 - step, y0 + step, y0 - 2 step,
\* y0 + 2 step, ..., with step = max(12, h + 6), ceil(height / step) + 2
\* steps each way and every probe clamped into [0, height - h]; it returns
\* no slot only if every probe overlaps.
C30_AlternatingProbes ==
  (callArg.fn = "findNonOverlappingY" /\ callRes # NULL) =>
    LET rect == callArg.rect
        step == Max(12, rect.h + 6)
        n == (callArg.height + step - 1) \div step + 2
        probe(i) ==
          LET y == IF i % 2 = 1 THEN rect.y - ((i + 1) \div 2) * step
                   ELSE rect.y + (i \div 2) * step
          IN Max(0, Min(callArg.height - rect.h, y))
        free(i) == \A j \in 1..Len(callArg.pool) :
                      ~rectsOverlap(callArg.pool[j], [rect EXCEPT !.y = probe(i)])
    IN IF \A i \in 0..(2 * n) : ~free(i)
         THEN Val(callRes) = NULL
       ELSE \E i \in 0..(2 * n) :
              /\ free(i) /\ \A j \in 0..(i - 1) : ~free(j)
              /\ Val(callRes) = Some(probe(i))

\* C30 as amended: the probe sequence is y0, then the rows upward
\* y0 - step, ..., y0 - n step, then the rows downward y0 + step, ...,
\* y0 + n step, with step = max(12, h + 6), n = ceil(height / step) + 2 and
\* every probe clamped into [0, height - h]; the search returns the first
\* probe that overlaps nothing in the pool, and no slot only if every
\* probe overlaps.
C30_UpwardThenDownward ==
  (callArg.fn = "findNonOverlappingY" /\ callRes # NULL) =>
    LET rect == callArg.rect
        step == Max(12, rect.h + 6)
        n == (callArg.height + step - 1) \div step + 2
        probe(i) ==
          LET y == IF i <= n THEN rect.y - i * step
                   ELSE rect.y + (i - n) * step
          IN Max(0, Min(callArg.height - rect.h, y))
        free(i) == \A j \in 1..Len(callArg.pool) :
                      ~rectsOverlap(callArg.pool[j], [rect EXCEPT !.y = probe(i)])
    IN IF \A i \in 0..(2 * n) : ~free(i)
         THEN Val(callRes) = NULL
       ELSE \E i \in 0..(2 * n) :
              /\ free(i) /\ \A j \in 0..(i - 1) : ~free(j)
              /\ Val(callRes) = Some(probe(i))

\* The anchor row and the row above it are taken and the row below is
\* free: the search returns the second row above.
C30_Witness ==
  /\ callArg.fn = "findNonOverlappingY" /\ callArg.height = 200
  /\ callArg.rect.y = 70 /\ Len(callArg.pool) = 2
  /\ callRes = Some(Some(10))

\* C21: for a key targeted in every frame with a fixed dt in (0, 0.1],
\* alpha never decreases from one frame to the next and equals 1 after at
\* most ceil(1 / (4 dt)) frames, from any starting alpha in [0, 1].
C21_FadeInWithinBound ==
  [][ (callArg.fn = "updateAlpha" /\ callArg.targeted /\ frames' = frames + 1) =>
        LET D == callArg.D
            m == callArg.m
            exact == D % m = 0
            N == IF exact /\ ~RateTimesDt(TRUE, m, D).over
                   THEN D \div m + 1 ELSE (D + m - 1) \div m
        IN /\ LeqD(labelAlpha["x"], labelAlpha'["x"])
           /\ frames' >= N => labelAlpha'["x"] = [k |-> D, n |-> 0] ]_vars

\* C22: for a key untargeted in every frame with a fixed dt in (0, 0.1],
\* alpha never increases from one frame to the next and the key has left
\* the fade state after at most ceil(1 / (3 dt)) frames, from any starting
\* alpha in [0, 1].
C22_FadeOutWithinBound ==
  [][ (callArg.fn = "updateAlpha" /\ ~callArg.targeted /\ frames' = frames + 1) =>
        LET D == callArg.D
            m == callArg.m
            exact == D % m = 0
            N == IF exact /\ ~RateTimesDt(FALSE, m, D).over
                   THEN D \div m + 1 ELSE (D + m - 1) \div m
            alpha(map) == IF "x" \in DOMAIN map THEN map["x"] ELSE [k |-> 0, n |-> 0]
        IN /\ LeqD(alpha(labelAlpha'), alpha(labelAlpha))
           /\ frames' >= N => "x" \notin DOMAIN labelAlpha' ]_vars

C27_DrawFailureFrameLocal ==
  page.failed => (rafPending /\ page.rafQueued)


\* C39: when a callback throws during an emission (and stop() is not called),
\* every listener still subscribed afterwards has received the sample, and a
\* pending tick is still pending afterwards.
C39_ThrowIsolated ==
  [][ (ev' \in Emits /\ threw' /\ stopped' = stopped) =>
        /\ \A l \in Range(listeners') :
              \E i \in 1..Len(calls') :
                 calls'[i].fn = l /\ calls'[i].sample = lastEmit'
        /\ (rafPending => rafPending') ]_vars


\* C40: in the fusion source a device-orientation event changes nothing but
\* the stored heading measurement (yaw, pitch, roll and the last sample stay,
\* no callback runs); yaw changes only in a device-motion step, and that step
\* adds to the gyro-integrated yaw one hundredth of the shortest signed angle
\* from it to the stored measurement.
C40_MeasurementAppliedOnMotion ==
  [][ (src = SrcFusion /\ src' = SrcFusion) =>
        /\ ev' = "DO" =>
              /\ yaw' = yaw /\ pitch' = pitch /\ roll' = roll
              /\ calls' = <<>> /\ lastEmit' = lastEmit
              /\ lastGyroTs' = lastGyroTs /\ listeners' = listeners
        /\ yaw' # yaw => ev' = "DM"
        /\ (ev' = "DM" /\ headingMeas # NULL) =>
              \E e \in DMEvents :
                 LET dtMs == IF lastGyroTs # 0 THEN now - lastGyroTs ELSE 0
                     gyro == IF e.rr # NULL
                               THEN (yaw + TruncDiv(Val(e.rr).alpha * dtMs, 1000)) % Full
                               ELSE yaw
                     errs == { d \in (0 - Half)..Half :
                                 (d - (Val(headingMeas) - gyro)) % Full = 0 }
                 IN \E d \in errs :
                      /\ \A o \in errs : d * d <= o * o
                      /\ yaw' \in 0..(Full - 1)
                      /\ (yaw' - (gyro + TruncDiv(d * YawGainPct, 100))) % Full = 0 ]_vars

\* A motion event has pulled yaw from 0 back across north toward a
\* measurement of 270 degrees, after an orientation event stored it.
C40_Witness ==
  /\ src = SrcFusion /\ ev = "DM" /\ headSeen
  /\ headingMeas = Some(2700) /\ yaw > Half


\* C35: in the virtual source pitch stays within [-89, 89] degrees, and a
\* pointer move of a drag that goes down the screen never raises pitch.
C35_VirtualPitchClamped ==
  [][ src' = SrcVirtual =>
        /\ pitch' >= 0 - PitchLimit /\ pitch' <= PitchLimit
        /\ (ev' = "move" /\ lastY' > lastY) => pitch' <= pitch ]_vars


\* C33: the dt of every frame's fade update lies in [0, 0.1] seconds,
\* whatever now values the frames are given.
C33_DtWithinFrameCap ==
  lastDt >= 0 /\ lastDt <= 100


\* C34: every card or chevron a frame draws belongs to a candidate whose
\* alpha, as stored when the frame draws it, is above 0.01, is drawn under
\* that alpha as globalAlpha, and is drawn for a rectangle of the on-screen
\* pool (card) or of an edge lane (chevron).
C34_NoFaintDraw ==
  [][ \A i \in 1..Len(drawn') :
        LET d == drawn'[i]
            stored == IF d.key \in DOMAIN labelAlpha THEN labelAlpha[d.key] ELSE 0
            inPool(pool) == \E j \in 1..Len(pool) : pool[j].key = d.key
        IN /\ stored > 10
           /\ d.globalAlpha = stored
           /\ d.kind = "card" => inPool(placed')
           /\ d.kind = "chevron" =>
                (inPool(edgeLeftPlaced') \/ inPool(edgeRightPlaced')) ]_vars

\* A frame that drew the card of one on-screen candidate, half faded in, and
\* placed another on-screen candidate without drawing it.
C34_Witness ==
  /\ \E i \in 1..Len(drawn) :
        drawn[i].kind = "card" /\ drawn[i].globalAlpha < 1000
  /\ \E j \in 1..Len(placed) :
        \A i \in 1..Len(drawn) : drawn[i].key # placed[j].key


\* C36: a render call writes the fade state once, as the fade update of the
\* frame's visible-target set with the frame's dt, after every draw: each
\* draw of frame n is made under the alpha frame n-1 left for its key, and
\* a key absent from the fade state when the frame starts is not drawn in it.
C36_DrawsUsePreviousAlpha ==
  [][ frames' = frames + 1 =>
        /\ \A i \in 1..Len(drawn') :
              /\ drawn'[i].key \in DOMAIN labelAlpha
              /\ drawn'[i].globalAlpha = labelAlpha[drawn'[i].key]
        /\ \A k \in DOMAIN labelAlpha' \cup DOMAIN labelAlpha :
              LET cur == IF k \in DOMAIN labelAlpha THEN labelAlpha[k] ELSE 0
                  next == IF k \in visibleKeys'
                            THEN Min(1000, cur + fadeInPerSec * lastDt')
                            ELSE Max(0, cur - fadeOutPerSec * lastDt')
              IN IF k \in DOMAIN labelAlpha'
                   THEN labelAlpha'[k] = next
                   ELSE k \notin visibleKeys' /\ next <= 0 ]_vars

\* A frame that targets and places a new key (b, not in the fade state
\* before) without drawing it, while it draws a key faded in earlier.
C36_Witness ==
  /\ frames = 3 /\ lastDt > 0
  /\ {"a", "b"} \subseteq DOMAIN labelAlpha
  /\ labelAlpha["a"] > labelAlpha["b"] /\ labelAlpha["b"] > 0
  /\ \E j \in 1..Len(placed) : placed[j].key = "b"
  /\ \E i \in 1..Len(drawn) : drawn[i].key = "a"
  /\ \A i \in 1..Len(drawn) : drawn[i].key # "b"


\* C38: a rectangle is in an edge lane after a frame only if indicators are
\* enabled and its candidate's alpha was above 0.01 when the frame started;
\* an on-screen candidate the frame targets has its rectangle in the
\* on-screen pool whatever its alpha.
C38_EdgeSlotNeedsAlpha ==
  [][ frames' = frames + 1 =>
        /\ \A r \in Range(edgeLeftPlaced') \cup Range(edgeRightPlaced') :
              /\ input'.showOffscreenIndicators
              /\ r.key \in DOMAIN labelAlpha
              /\ labelAlpha[r.key] > 10
        /\ \A i \in 1..Len(Cities) :
              LET deltaAz == wrap180(Cities[i].bearing - input'.headingDeg)
                  onscreen == /\ 2 * deltaAz >= 0 - input'.hfovDeg
                              /\ 2 * deltaAz <= input'.hfovDeg
              IN (onscreen /\ keyOf(Cities[i]) \in visibleKeys') =>
                   \E r \in Range(placed') : r.key = keyOf(Cities[i]) ]_vars

\* A frame with indicators enabled, looking south: city a, faded in before,
\* has its indicator; city b, new to the fade state, is off-screen and has no
\* rectangle; city c, as new, is on-screen and has its slot.
C38_Witness ==
  /\ frames > 0 /\ lastDt > 0 /\ input.showOffscreenIndicators
  /\ {"a", "b", "c"} \subseteq visibleKeys
  /\ \E r \in Range(edgeLeftPlaced) \cup Range(edgeRightPlaced) : r.key = "a"
  /\ labelAlpha["b"] = fadeInPerSec * lastDt
  /\ \A r \in AllRects : r.key # "b"
  /\ labelAlpha["c"] = fadeInPerSec * lastDt
  /\ \E r \in Range(placed) : r.key = "c"


\* C37: the on-screen pool of a frame is the one the same inputs give under
\* any other fade state (the empty one, every city at alpha 0, every city
\* at alpha 1, and each city alone at alpha 1), and the one the previous
\* frame placed if that frame had the same inputs.
C37_PoolIgnoresFadeState ==
  [][ frames' = frames + 1 =>
        LET keys == {keyOf(Cities[i]) : i \in 1..Len(Cities)}
            candidates ==
              sortByPopulation(
                SelectSeq(Cities, LAMBDA x : inRadius(x, input'.maxDistanceKm)))
            poolUnder(fade) ==
              placeAll(candidates, input', fade,
                       [placed |-> <<>>, edgeLeftPlaced |-> <<>>,
                        edgeRightPlaced |-> <<>>, visibleKeys |-> {},
                        drawn |-> <<>>]).placed
        IN /\ poolUnder(<<>>) = placed'
           /\ \A full \in {{}, keys} \cup {{k} : k \in keys} :
                 poolUnder([k \in keys |-> IF k \in full THEN 1000 ELSE 0]) = placed'
           /\ (frames >= 1 /\ input' = input) => placed' = placed ]_vars

\* The second of two frames: the fade state has moved between them, some
\* placed keys are part-way in, and two on-screen labels compete for a row.
C37_Witness ==
  /\ frames >= 2 /\ lastDt > 0 /\ Len(placed) = 2
  /\ placed[1].y # placed[2].y
  /\ \E j \in 1..Len(placed) :
        /\ placed[j].key \in DOMAIN labelAlpha
        /\ labelAlpha[placed[j].key] > 0 /\ labelAlpha[placed[j].key] < 1000


\* C32: the fade update of a frame drops a key exactly when the frame does
\* not target it and its updated alpha is 0; every key the frame targets is
\* in the fade state afterwards, also at alpha 0, and every key in the fade
\* state is targeted by the frame or has alpha > 0.
C32_DroppedWhenFadedOut ==
  [][ frames' = frames + 1 =>
        /\ \A k \in DOMAIN labelAlpha \cup visibleKeys' :
              LET cur == IF k \in DOMAIN labelAlpha THEN labelAlpha[k] ELSE 0
                  updated == IF k \in visibleKeys'
                               THEN Min(1000, cur + fadeInPerSec * lastDt')
                               ELSE Max(0, cur - fadeOutPerSec * lastDt')
              IN k \notin DOMAIN labelAlpha' <=>
                   (k \notin visibleKeys' /\ updated = 0)
        /\ visibleKeys' \subseteq DOMAIN labelAlpha'
        /\ \A k \in DOMAIN labelAlpha' :
              k \in visibleKeys' \/ labelAlpha'[k] > 0 ]_vars

\* After a frame, one targeted key is stored at alpha 0 and one untargeted
\* key is still stored, fading out.
C32_Witness ==
  /\ frames >= 2
  /\ \E k \in visibleKeys : k \in DOMAIN labelAlpha /\ labelAlpha[k] = 0
  /\ \E k \in DOMAIN labelAlpha : k \notin visibleKeys /\ labelAlpha[k] > 0


\* C31: the on-screen pool lists its rectangles by decreasing population,
\* candidates of equal population in the order of the cities array; each
\* rectangle sits where the slot search puts it against the rectangles
\* before it in the pool alone; and the first candidate of that order that
\* is within the radius and the field of view is the pool's first
\* rectangle, at its anchored row (clamped into the canvas).
C31_PopulationFirst ==
  frames > 0 =>
    LET idx(key) == CHOOSE i \in 1..Len(Cities) : keyOf(Cities[i]) = key
        before(i, j) ==
          \/ Cities[i].population > Cities[j].population
          \/ Cities[i].population = Cities[j].population /\ i < j
        deltaAz(i) == wrap180(Cities[i].bearing - input.headingDeg)
        eligible == {i \in 1..Len(Cities) :
                       /\ Cities[i].distKm <= input.maxDistanceKm
                       /\ 2 * deltaAz(i) >= 0 - input.hfovDeg
                       /\ 2 * deltaAz(i) <= input.hfovDeg}
        horizonY == pitchToScreenY(input.pitchDeg,
                      estimateVfovDeg(input.hfovDeg, input.width, input.height),
                      input.height)
        anchorY == Max(0, Min(input.height - 24, horizonY - 6)) - fixedLineHeight
        maxSteps == (input.height + fixedLineHeight + 5) \div (fixedLineHeight + 6) + 2
    IN /\ \A m, n \in 1..Len(placed) :
             m < n => before(idx(placed[m].key), idx(placed[n].key))
       /\ \A n \in 1..Len(placed) :
             Some(placed[n].y) =
               findNonOverlappingY([placed[n] EXCEPT !.y = anchorY],
                                   SubSeq(placed, 1, n - 1), input.height, maxSteps)
       /\ eligible # {} =>
             /\ placed # <<>>
             /\ idx(placed[1].key) \in eligible
             /\ \A i \in eligible \ {idx(placed[1].key)} :
                   before(idx(placed[1].key), i)
             /\ placed[1].y = Max(0, Min(input.height - fixedLineHeight, anchorY))

\* Cities b and a have the same population and b comes first in the array:
\* b has the anchored row and a, tested against b's rectangle, another row.
C31_Witness ==
  /\ frames > 0 /\ Len(placed) = 2
  /\ placed[1].key = "b" /\ placed[2].key = "a"
  /\ placed[1].y = 70 /\ placed[2].y # 70

====
